---- MODULE Spec2Model ----
(***************************************************************************)
(* Order-statistic sequence container (size-augmented binary tree with an  *)
(* unbalanced baseline strategy and a splay strategy).                     *)
(*                                                                         *)
(* The heap of nodes is the function `nodes` from allocated node ids to    *)
(* node records; a tree handle is the triple root/first/last.  The node    *)
(* algebra, the tree handle and the two strategies are operators on a      *)
(* tree state [nodes, root, first, last, ret], translated statement by     *)
(* statement from the headers; the actions are the facade operations and   *)
(* the tree-handle operations.                                             *)
(***************************************************************************)
EXTENDS Integers, Sequences, FiniteSets, TLC

\* ---- bounds ----
MaxNodes == 4       \* nodes allocated at the same time
MaxBulk == 2        \* values of one bulk insert

Null == 0
Trees == {1, 2}
Strategies == {"basic", "splay"}
Bare == "bare"

kNotChild == 0
kLeftChild == 1
kRightChild == 2

VARIABLES
  nodes,      \* heap: allocated node id -> node record
  root,       \* tree id -> root node or Null
  first,      \* tree id -> cached leftmost node or Null
  last,       \* tree id -> cached rightmost node or Null
  strategy,   \* TreeImpl of the facade ("basic", "splay"), or "bare" for a tree used directly
  ref,        \* tree id -> reference double-ended list of the values
  pending,    \* nodes whose size the caller of rotate still has to refresh
  op          \* the last operation: its name, how it ended, what it returned

vars == <<nodes, root, first, last, strategy, ref, pending, op>>

\* ======================= sequences (reference list) =====================
InsertAt(s, i, v) == SubSeq(s, 1, i) \o <<v>> \o SubSeq(s, i + 1, Len(s))
InsertSeqAt(s, i, vs) == SubSeq(s, 1, i) \o vs \o SubSeq(s, i + 1, Len(s))
RemoveAt(s, i) == SubSeq(s, 1, i) \o SubSeq(s, i + 2, Len(s))
RemoveRange(s, i, j) == SubSeq(s, 1, i) \o SubSeq(s, j + 1, Len(s))
SeqRange(s) == {s[i] : i \in 1..Len(s)}

\* ============================ node algebra ==============================
NewNodeRecord(v) ==
  [left_child |-> Null, right_child |-> Null, parent |-> Null,
   size |-> 1, data |-> v]

SetLeft(h, n, v) == [h EXCEPT ![n].left_child = v]
SetRight(h, n, v) == [h EXCEPT ![n].right_child = v]
SetParent(h, n, v) == [h EXCEPT ![n].parent = v]
SetSize(h, n, v) == [h EXCEPT ![n].size = v]

InsertPosition(n, l) == [node |-> n, left_child |-> l]

get_child_type(h, n) ==
  IF h[n].parent = Null THEN kNotChild
  ELSE IF h[h[n].parent].left_child = n THEN kLeftChild ELSE kRightChild

get_size(h, n) == IF n # Null THEN h[n].size ELSE 0

RECURSIVE is_under(_, _, _)
is_under(h, n, a) ==
  IF n = a THEN TRUE
  ELSE IF n = Null THEN FALSE
  ELSE is_under(h, h[n].parent, a)

update_size(h, n) ==
  LET new_size == 1 + get_size(h, h[n].left_child)
                    + get_size(h, h[n].right_child)
  IN IF new_size # h[n].size THEN SetSize(h, n, new_size) ELSE h

\* variant: only the node itself is refreshed, its ancestors are not
update_sizes_upwards_once(h, n) == update_size(h, n)

\* traverse_upwards with update_node_size: stops at the first node whose
\* size does not change.
RECURSIVE update_sizes_upwards(_, _)
update_sizes_upwards(h, n) ==
  LET h2 == update_size(h, n)
  IN IF h2[n].size = h[n].size THEN h
     ELSE IF h2[n].parent = Null THEN h2
     ELSE update_sizes_upwards(h2, h2[n].parent)

RECURSIVE traverse_inorder(_, _)
traverse_inorder(h, n) ==
  IF n = Null THEN <<>>
  ELSE traverse_inorder(h, h[n].left_child) \o <<n>>
       \o traverse_inorder(h, h[n].right_child)

RECURSIVE traverse_postorder(_, _)
traverse_postorder(h, n) ==
  IF n = Null THEN <<>>
  ELSE traverse_postorder(h, h[n].left_child)
       \o traverse_postorder(h, h[n].right_child) \o <<n>>

\* variant: coming up from a right child adds the left sibling subtree but
\* not the parent itself
RECURSIVE get_index_loop_no_parent(_, _, _)
get_index_loop_no_parent(h, n, index) ==
  LET p == h[n].parent
  IN IF p = Null THEN index
     ELSE IF h[p].right_child = n
          THEN get_index_loop_no_parent(h, p,
                                        index + get_size(h, h[p].left_child))
          ELSE get_index_loop_no_parent(h, p, index)

RECURSIVE get_index_loop(_, _, _)
get_index_loop(h, n, index) ==
  LET p == h[n].parent
  IN IF p = Null THEN index
     ELSE IF h[p].right_child = n
          THEN get_index_loop(h, p, index + get_size(h, h[p].left_child) + 1)
          ELSE get_index_loop(h, p, index)

get_index(h, n) == get_index_loop(h, n, get_size(h, h[n].left_child))

RECURSIVE find_node_at_index_loop(_, _, _)
find_node_at_index_loop(h, n, index) ==
  LET l == h[n].left_child
  IN IF l # Null /\ index < h[l].size
     THEN find_node_at_index_loop(h, l, index)
     ELSE LET i2 == IF l # Null THEN index - h[l].size ELSE index
          IN IF i2 = 0 THEN n
             ELSE find_node_at_index_loop(h, h[n].right_child, i2 - 1)

find_node_at_index(h, n, index) ==
  IF n = Null THEN Null
  ELSE IF h[n].size <= index THEN Null
  ELSE find_node_at_index_loop(h, n, index)

RECURSIVE find_first_node(_, _)
find_first_node(h, n) ==
  IF h[n].left_child # Null THEN find_first_node(h, h[n].left_child) ELSE n

RECURSIVE find_last_node(_, _)
find_last_node(h, n) ==
  IF h[n].right_child # Null THEN find_last_node(h, h[n].right_child) ELSE n

RECURSIVE find_next_node_up(_, _)
find_next_node_up(h, n) ==
  LET ct == get_child_type(h, n)
  IN IF ct = kNotChild THEN Null
     ELSE IF ct = kLeftChild THEN h[n].parent
     ELSE find_next_node_up(h, h[n].parent)

find_next_node(h, n) ==
  IF h[n].right_child # Null THEN find_first_node(h, h[n].right_child)
  ELSE find_next_node_up(h, n)

RECURSIVE find_prev_node_up(_, _)
find_prev_node_up(h, n) ==
  LET ct == get_child_type(h, n)
  IN IF ct = kNotChild THEN Null
     ELSE IF ct = kRightChild THEN h[n].parent
     ELSE find_prev_node_up(h, h[n].parent)

find_prev_node(h, n) ==
  IF h[n].left_child # Null THEN find_last_node(h, h[n].left_child)
  ELSE find_prev_node_up(h, n)

\* variant: a move to the left child takes back the size of that child's
\* right subtree only, not the child itself
RECURSIVE find_next_node_down_short(_, _, _, _)
find_next_node_down_short(h, n, steps, displacement) ==
  IF steps > displacement
  THEN find_next_node_down_short(
         h, h[n].right_child, steps,
         displacement + get_size(h, h[h[n].right_child].left_child) + 1)
  ELSE IF steps < displacement
  THEN IF h[n].left_child = Null THEN n
       ELSE find_next_node_down_short(
              h, h[n].left_child, steps,
              displacement - get_size(h, h[h[n].left_child].right_child))
  ELSE n

\* find_next_node(n, steps), the descent: the target is under the right
\* child; displacement is the distance of n from the node the search began at
RECURSIVE find_next_node_down(_, _, _, _)
find_next_node_down(h, n, steps, displacement) ==
  IF steps > displacement
  THEN find_next_node_down(
         h, h[n].right_child, steps,
         displacement + get_size(h, h[h[n].right_child].left_child) + 1)
  ELSE IF steps < displacement
  THEN find_next_node_down(
         h, h[n].left_child, steps,
         displacement - (get_size(h, h[h[n].left_child].right_child) + 1))
  ELSE n

\* OrderedBinaryTreeNode::find_next_node(n, steps), steps >= 0
RECURSIVE find_next_node_steps(_, _, _)
find_next_node_steps(h, n, steps) ==
  IF steps = 0 THEN n
  ELSE IF steps <= get_size(h, h[n].right_child)
  THEN find_next_node_down(
         h, h[n].right_child, steps,
         get_size(h, h[h[n].right_child].left_child) + 1)
  ELSE IF get_child_type(h, n) = kNotChild THEN Null
  ELSE IF get_child_type(h, n) = kLeftChild
  THEN find_next_node_steps(h, h[n].parent,
                            steps - (get_size(h, h[n].right_child) + 1))
  ELSE find_next_node_steps(h, h[n].parent,
                            steps + get_size(h, h[n].left_child) + 1)

\* find_prev_node(n, steps), the descent under the left child
RECURSIVE find_prev_node_down(_, _, _, _)
find_prev_node_down(h, n, steps, displacement) ==
  IF steps > displacement
  THEN find_prev_node_down(
         h, h[n].left_child, steps,
         displacement + get_size(h, h[h[n].left_child].right_child) + 1)
  ELSE IF steps < displacement
  THEN find_prev_node_down(
         h, h[n].right_child, steps,
         displacement - (get_size(h, h[h[n].right_child].left_child) + 1))
  ELSE n

\* OrderedBinaryTreeNode::find_prev_node(n, steps), steps >= 0
RECURSIVE find_prev_node_steps(_, _, _)
find_prev_node_steps(h, n, steps) ==
  IF steps = 0 THEN n
  ELSE IF steps <= get_size(h, h[n].left_child)
  THEN find_prev_node_down(
         h, h[n].left_child, steps,
         get_size(h, h[h[n].left_child].right_child) + 1)
  ELSE IF get_child_type(h, n) = kNotChild THEN Null
  ELSE IF get_child_type(h, n) = kRightChild
  THEN find_prev_node_steps(h, h[n].parent,
                            steps - (get_size(h, h[n].left_child) + 1))
  ELSE find_prev_node_steps(h, h[n].parent,
                            steps + get_size(h, h[n].right_child) + 1)

\* variant: the descent goes left only for index < size(left), so the slot
\* right after the left subtree is missed
RECURSIVE get_insert_position_strict(_, _, _)
get_insert_position_strict(h, n, index) ==
  LET l == h[n].left_child
      r == h[n].right_child
  IN IF l # Null /\ index < h[l].size
     THEN get_insert_position_strict(h, l, index)
     ELSE IF l = Null /\ index = 0 THEN InsertPosition(n, TRUE)
     ELSE LET i2 == IF l # Null THEN index - (h[l].size + 1) ELSE index - 1
          IN IF r # Null THEN get_insert_position_strict(h, r, i2)
             ELSE InsertPosition(n, FALSE)

RECURSIVE get_insert_position_for_index(_, _, _)
get_insert_position_for_index(h, n, index) ==
  LET l == h[n].left_child
      r == h[n].right_child
  IN IF l # Null /\ index <= h[l].size
     THEN get_insert_position_for_index(h, l, index)
     ELSE IF l = Null /\ index = 0 THEN InsertPosition(n, TRUE)
     ELSE LET i2 == IF l # Null THEN index - (h[l].size + 1) ELSE index - 1
          IN IF r # Null THEN get_insert_position_for_index(h, r, i2)
             ELSE InsertPosition(n, FALSE)

\* variant: the free position that follows n is returned
get_prev_insert_position_behind(h, n) ==
  IF h[n].right_child = Null THEN InsertPosition(n, FALSE)
  ELSE InsertPosition(find_next_node(h, n), TRUE)

get_prev_insert_position(h, n) ==
  IF h[n].left_child = Null THEN InsertPosition(n, TRUE)
  ELSE InsertPosition(find_prev_node(h, n), FALSE)

\* variant: the position in front of the right child is returned
get_next_insert_position_at_child(h, n) ==
  IF h[n].right_child = Null THEN InsertPosition(n, FALSE)
  ELSE InsertPosition(h[n].right_child, TRUE)

get_next_insert_position(h, n) ==
  IF h[n].right_child = Null THEN InsertPosition(n, FALSE)
  ELSE InsertPosition(find_next_node(h, n), TRUE)

\* OrderedBinaryTreeNode::link<update_sizes>: `n` becomes a child of pos.node
node_link(h, n, pos, update_sizes) ==
  LET p == pos.node
      h1 == IF pos.left_child THEN SetLeft(h, p, n) ELSE SetRight(h, p, n)
      h2 == SetParent(h1, n, p)
  IN IF update_sizes THEN update_sizes_upwards(h2, p) ELSE h2

\* variant: the index is ignored and the node is appended
node_link_at_end(h, r, index, n, update_sizes) ==
  node_link(h, n, get_insert_position_for_index(h, r, get_size(h, r)),
            update_sizes)

node_link_at_index(h, r, index, n, update_sizes) ==
  node_link(h, n, get_insert_position_for_index(h, r, index), update_sizes)

\* OrderedBinaryTreeNode::unlink<update_sizes>; the position returned for a
\* parentless node is the default-constructed one (node Null).
node_unlink(h, n, update_sizes) ==
  LET ct == get_child_type(h, n)
      p == h[n].parent
  IN IF ct = kLeftChild
     THEN LET h1 == SetLeft(h, p, Null)
              h2 == IF update_sizes THEN update_sizes_upwards(h1, p) ELSE h1
          IN [nodes |-> SetParent(h2, n, Null), pos |-> InsertPosition(p, TRUE)]
     ELSE IF ct = kRightChild
     THEN LET h1 == SetRight(h, p, Null)
              h2 == IF update_sizes THEN update_sizes_upwards(h1, p) ELSE h1
          IN [nodes |-> SetParent(h2, n, Null), pos |-> InsertPosition(p, FALSE)]
     ELSE [nodes |-> h, pos |-> InsertPosition(Null, FALSE)]

\* variant: the subtree that changes sides keeps its old parent
node_rotate_left_stale_parent(h, n) ==
  LET p == h[n].parent
      child_type == get_child_type(h, n)
      r == h[n].right_child
      rl == h[r].left_child
      h1 == SetRight(h, n, rl)
      h3 == SetLeft(h1, r, n)
      h4 == SetParent(h3, n, r)
      h5 == IF child_type = kLeftChild THEN SetLeft(h4, p, r)
            ELSE IF child_type = kRightChild THEN SetRight(h4, p, r)
            ELSE h4
  IN SetParent(h5, r, p)

\* OrderedBinaryTreeNode::rotate_left (sizes are not refreshed)
node_rotate_left(h, n) ==
  LET p == h[n].parent
      child_type == get_child_type(h, n)
      r == h[n].right_child
      rl == h[r].left_child
      h1 == SetRight(h, n, rl)
      h2 == IF rl # Null THEN SetParent(h1, rl, n) ELSE h1
      h3 == SetLeft(h2, r, n)
      h4 == SetParent(h3, n, r)
      h5 == IF child_type = kLeftChild THEN SetLeft(h4, p, r)
            ELSE IF child_type = kRightChild THEN SetRight(h4, p, r)
            ELSE h4
  IN SetParent(h5, r, p)

\* OrderedBinaryTreeNode::rotate_right (sizes are not refreshed)
node_rotate_right(h, n) ==
  LET p == h[n].parent
      child_type == get_child_type(h, n)
      r == h[n].left_child
      rl == h[r].right_child
      h1 == SetLeft(h, n, rl)
      h2 == IF rl # Null THEN SetParent(h1, rl, n) ELSE h1
      h3 == SetRight(h2, r, n)
      h4 == SetParent(h3, n, r)
      h5 == IF child_type = kRightChild THEN SetRight(h4, p, r)
            ELSE IF child_type = kLeftChild THEN SetLeft(h4, p, r)
            ELSE h4
  IN SetParent(h5, r, p)

\* splay_1: one rotation of the parent; returns the former parent
splay_1(h, n) ==
  LET p == h[n].parent
  IN [nodes |-> IF get_child_type(h, n) = kLeftChild
                THEN node_rotate_right(h, p)
                ELSE node_rotate_left(h, p),
      p |-> p]

\* x->left_child = c; if (c) c->parent = x
AdoptLeft(h, x, c) ==
  LET h1 == SetLeft(h, x, c)
  IN IF c # Null THEN SetParent(h1, c, x) ELSE h1

\* x->right_child = c; if (c) c->parent = x
AdoptRight(h, x, c) ==
  LET h1 == SetRight(h, x, c)
  IN IF c # Null THEN SetParent(h1, c, x) ELSE h1

\* p->left_child = n->right_child; if (n->right_child) ...->parent = p
AdoptRightChildOf(h, p, n) == AdoptLeft(h, p, h[n].right_child)

\* p->right_child = n->left_child; if (n->left_child) ...->parent = p
AdoptLeftChildOf(h, p, n) == AdoptRight(h, p, h[n].left_child)

\* splay_2: zig-zig / zig-zag; returns {former grandparent, former parent}.
\* The zig-zag cases work on the copies `left` and `right` of n's children
\* taken on entry; the zig-zig cases read n's child when they move it.
splay_2(h, n) ==
  LET p == h[n].parent
      pp == h[p].parent
      ppp == h[pp].parent
      child_type == get_child_type(h, n)
      p_child_type == get_child_type(h, p)
      pp_child_type == get_child_type(h, pp)
      hr ==
        IF p_child_type = kLeftChild
        THEN IF child_type = kLeftChild
             THEN \* left-left zig-zig
               LET a2 == AdoptLeft(h, pp, h[p].right_child)
                   a4 == SetParent(SetRight(a2, p, pp), pp, p)
                   a6 == AdoptRightChildOf(a4, p, n)
               IN SetParent(SetRight(a6, n, p), p, n)
             ELSE \* left-right zig-zag
               LET a2 == AdoptRight(h, p, h[n].left_child)
                   a4 == SetParent(SetLeft(a2, n, p), p, n)
                   a6 == AdoptLeft(a4, pp, h[n].right_child)
               IN SetParent(SetRight(a6, n, pp), pp, n)
        ELSE IF child_type = kLeftChild
             THEN \* right-left zig-zag
               LET a2 == AdoptLeft(h, p, h[n].right_child)
                   a4 == SetParent(SetRight(a2, n, p), p, n)
                   a6 == AdoptRight(a4, pp, h[n].left_child)
               IN SetParent(SetLeft(a6, n, pp), pp, n)
             ELSE \* right-right zig-zig
               LET a2 == AdoptRight(h, pp, h[p].left_child)
                   a4 == SetParent(SetLeft(a2, p, pp), pp, p)
                   a6 == AdoptLeftChildOf(a4, p, n)
               IN SetParent(SetLeft(a6, n, p), p, n)
      b1 == SetParent(hr, n, ppp)
  IN [nodes |-> IF pp_child_type = kLeftChild THEN SetLeft(b1, ppp, n)
                ELSE IF pp_child_type = kRightChild THEN SetRight(b1, ppp, n)
                ELSE b1,
      pp |-> pp, p |-> p]

\* the update function f of splay: update_node_size or the no-op
splay_f(h, n, update_sizes) == IF update_sizes THEN update_size(h, n) ELSE h

\* f(pp); f(p) on the pair splay_2 returned
splay_f_2(r, update_sizes) ==
  splay_f(splay_f(r.nodes, r.pp, update_sizes), r.p, update_sizes)

\* f(p) on the node splay_1 returned
splay_f_1(r, update_sizes) == splay_f(r.nodes, r.p, update_sizes)

\* OrderedBinaryTreeNode::splay(f, top)
RECURSIVE node_splay(_, _, _, _)
node_splay(h, n, top, update_sizes) ==
  IF h[n].parent # top
  THEN IF h[h[n].parent].parent # top
       THEN node_splay(splay_f_2(splay_2(h, n), update_sizes),
                       n, top, update_sizes)
       ELSE node_splay(splay_f_1(splay_1(h, n), update_sizes),
                       n, top, update_sizes)
  ELSE splay_f(h, n, update_sizes)

\* std::swap(size, n->size)
SwapSizes(h, a, n) == SetSize(SetSize(h, a, h[n].size), n, h[a].size)

\* std::swap(parent, n->parent)
SwapParents(h, a, n) == SetParent(SetParent(h, a, h[n].parent), n, h[a].parent)

\* std::swap(left_child, n->left_child)
SwapLeftChildren(h, a, n) ==
  SetLeft(SetLeft(h, a, h[n].left_child), n, h[a].left_child)

\* std::swap(right_child, n->right_child)
SwapRightChildren(h, a, n) ==
  SetRight(SetRight(h, a, h[n].right_child), n, h[a].right_child)

\* switch (child_type): x->parent->left_child = x or x->parent->right_child = x
AttachToParent(h, x, child_type) ==
  IF child_type = kLeftChild THEN SetLeft(h, h[x].parent, x)
  ELSE IF child_type = kRightChild THEN SetRight(h, h[x].parent, x)
  ELSE h

\* if (x->left_child) x->left_child->parent = x
FixLeftParent(h, x) ==
  IF h[x].left_child # Null THEN SetParent(h, h[x].left_child, x) ELSE h

\* if (x->right_child) x->right_child->parent = x
FixRightParent(h, x) ==
  IF h[x].right_child # Null THEN SetParent(h, h[x].right_child, x) ELSE h

\* variant: the two nodes exchange their data and keep their links
node_swap_data(h, a, n) ==
  [h EXCEPT ![a].data = h[n].data, ![n].data = h[a].data]

\* OrderedBinaryTreeNode::swap: exchanges links and sizes, never data.  The
\* two child types are taken before the parents are exchanged (the sizes
\* exchanged before that do not enter them).
node_swap(h, a, n) ==
  LET child_type == get_child_type(h, a)
      n_child_type == get_child_type(h, n)
      s2 == SwapParents(SwapSizes(h, a, n), a, n)
      s3 == AttachToParent(s2, a, n_child_type)
      s4 == AttachToParent(s3, n, child_type)
      s6 == FixLeftParent(SwapLeftChildren(s4, a, n), a)
      s7 == FixLeftParent(s6, n)
      s9 == FixRightParent(SwapRightChildren(s7, a, n), a)
  IN FixRightParent(s9, n)

\* splice `child` into the slot of `n` at its parent (the common tail of the
\* three cases of erase)
erase_splice(h, n, child, update_sizes) ==
  LET child_type == get_child_type(h, n)
      p == h[n].parent
      h1 == IF child_type = kLeftChild THEN SetLeft(h, p, child)
            ELSE IF child_type = kRightChild THEN SetRight(h, p, child)
            ELSE h
      h2 == IF child # Null THEN SetParent(h1, child, p) ELSE h1
  IN IF update_sizes /\ p # Null THEN update_sizes_upwards(h2, p) ELSE h2

\* the tail of erase once `n` has exchanged places with its successor
node_erase_swapped(h, n, next, update_sizes) ==
  [nodes |-> erase_splice(h, n, h[n].right_child, update_sizes),
   first |-> next, second |-> h[n].parent]

\* OrderedBinaryTreeNode::erase<update_sizes>: returns the replacement node
\* and the node from which data has to be refreshed upwards
node_erase(h, n, update_sizes) ==
  IF h[n].left_child = Null
  THEN [nodes |-> erase_splice(h, n, h[n].right_child, update_sizes),
        first |-> h[n].right_child, second |-> h[n].parent]
  ELSE IF h[n].right_child = Null
  THEN [nodes |-> erase_splice(h, n, h[n].left_child, update_sizes),
        first |-> h[n].left_child, second |-> h[n].parent]
  ELSE node_erase_swapped(node_swap(h, n, find_next_node(h, n)), n,
                          find_next_node(h, n), update_sizes)

\* ============================= tree handle ==============================
\* A tree state T is one handle together with the heap it points into.
MkTree(h, r, f, l) == [nodes |-> h, root |-> r, first |-> f, last |-> l]

tree_size(T) == IF T.root # Null THEN T.nodes[T.root].size ELSE 0

tree_empty(T) == T.root = Null

tree_clear(T) == MkTree(T.nodes, Null, Null, Null)

tree_find_node_at_index(T, index) == find_node_at_index(T.nodes, T.root, index)

\* the allocator hands out the least free node id
FreshNode(h) ==
  CHOOSE n \in 1..(Cardinality(DOMAIN h) + 1) :
    n \notin DOMAIN h /\ \A m \in 1..(n - 1) : m \in DOMAIN h

create_node(h, v) ==
  LET n == FreshNode(h) IN [nodes |-> h @@ (n :> NewNodeRecord(v)), n |-> n]

destroy_node(h, n) == [m \in DOMAIN h \ {n} |-> h[m]]

RECURSIVE destroy_nodes(_, _)
destroy_nodes(h, ns) ==
  IF ns = <<>> THEN h ELSE destroy_nodes(destroy_node(h, Head(ns)), Tail(ns))

destroy_all_nodes(T) ==
  tree_clear([T EXCEPT !.nodes =
                destroy_nodes(T.nodes, traverse_postorder(T.nodes, T.root))])

tree_get_insert_position_for_index(T, index) ==
  IF T.root # Null THEN get_insert_position_for_index(T.nodes, T.root, index)
  ELSE InsertPosition(Null, FALSE)

get_first_insert_position(T) ==
  IF T.first # Null THEN InsertPosition(T.first, TRUE)
  ELSE InsertPosition(Null, FALSE)

get_last_insert_position(T) ==
  IF T.last # Null THEN InsertPosition(T.last, FALSE)
  ELSE InsertPosition(Null, FALSE)

\* first = n->find_first_node() on the heap h
WithFirstOf(h, T, n) == MkTree(h, T.root, find_first_node(h, n), T.last)

\* last = n->find_last_node() on the heap h
WithLastOf(h, T, n) == MkTree(h, T.root, T.first, find_last_node(h, n))

\* OrderedBinaryTree::link<update_sizes>(pos, n)
tree_link(T, pos, n, update_sizes) ==
  IF n = Null THEN T
  ELSE IF T.root # Null
  THEN IF pos.left_child /\ pos.node = T.first
       THEN WithFirstOf(node_link(T.nodes, n, pos, update_sizes), T, n)
       ELSE IF ~pos.left_child /\ pos.node = T.last
       THEN WithLastOf(node_link(T.nodes, n, pos, update_sizes), T, n)
       ELSE MkTree(node_link(T.nodes, n, pos, update_sizes),
                   T.root, T.first, T.last)
  ELSE MkTree(T.nodes, n, find_first_node(T.nodes, n),
              find_last_node(T.nodes, n))

\* OrderedBinaryTree::link_at_index<update_sizes>(index, n)
tree_link_at_index(T, index, n, update_sizes) ==
  IF n = Null THEN T
  ELSE IF T.root # Null
  THEN LET f == IF index = 0 THEN find_first_node(T.nodes, n) ELSE T.first
           l == IF index # 0 /\ index = tree_size(T)
                THEN find_last_node(T.nodes, n) ELSE T.last
       IN MkTree(node_link_at_index(T.nodes, T.root, index, n, update_sizes),
                 T.root, f, l)
  ELSE MkTree(T.nodes, n, find_first_node(T.nodes, n),
              find_last_node(T.nodes, n))

\* OrderedBinaryTree::link_subtree<update_sizes>(pos, This const& other):
\* O is the handle of the other tree (same heap); the result is this tree.
tree_link_subtree(T, pos, O, update_sizes) ==
  IF tree_empty(O) THEN T
  ELSE IF T.root # Null
  THEN LET h1 == node_link(T.nodes, O.root, pos, update_sizes)
       IN IF pos.left_child /\ pos.node = T.first
          THEN MkTree(h1, T.root, O.first, T.last)
          ELSE IF ~pos.left_child /\ pos.node = T.last
          THEN MkTree(h1, T.root, T.first, O.last)
          ELSE MkTree(h1, T.root, T.first, T.last)
  ELSE MkTree(T.nodes, O.root, O.first, O.last)

\* link<update_sizes>(pos, n) of the node n that create_node returned as c
LinkCreated(T, c, pos, update_sizes) ==
  [tree |-> tree_link([T EXCEPT !.nodes = c.nodes], pos, c.n, update_sizes),
   ret |-> c.n]

\* link_at_index<update_sizes>(index, n) of the node create_node returned
LinkCreatedAtIndex(T, c, index, update_sizes) ==
  [tree |-> tree_link_at_index([T EXCEPT !.nodes = c.nodes], index, c.n,
                               update_sizes),
   ret |-> c.n]

\* OrderedBinaryTree::emplace<update_sizes>(pos, args...)
tree_emplace(T, pos, v, update_sizes) ==
  LinkCreated(T, create_node(T.nodes, v), pos, update_sizes)

\* OrderedBinaryTree::emplace_at_index<update_sizes>(index, args...)
tree_emplace_at_index(T, index, v, update_sizes) ==
  LinkCreatedAtIndex(T, create_node(T.nodes, v), index, update_sizes)

\* the handle after n->unlink() returned u: root, first and last are cleared
\* when n was the root, else first and last are the ones chosen before
Unlinked(T, n, f, l, u) ==
  [tree |-> IF T.root = n THEN MkTree(u.nodes, Null, Null, Null)
            ELSE MkTree(u.nodes, T.root, f, l),
   ret |-> u.pos]

\* OrderedBinaryTree::unlink<update_sizes>(n)
tree_unlink(T, n, update_sizes) ==
  LET h == T.nodes
      f == IF is_under(h, T.first, n) THEN h[n].parent ELSE T.first
      l == IF is_under(h, T.last, n) THEN h[n].parent ELSE T.last
  IN Unlinked(T, n, f, l, node_unlink(h, n, update_sizes))

\* variant: the root stays on n
RotatedStaleRoot(T, n, h1) == MkTree(h1, T.root, T.first, T.last)

\* the handle after a rotation at n: if (n == root) root = n->parent
Rotated(T, n, h1) ==
  MkTree(h1, IF n = T.root THEN h1[n].parent ELSE T.root, T.first, T.last)

\* OrderedBinaryTree::rotate_left(n)
tree_rotate_left(T, n) == Rotated(T, n, node_rotate_left(T.nodes, n))

\* OrderedBinaryTree::rotate_right(n)
tree_rotate_right(T, n) == Rotated(T, n, node_rotate_right(T.nodes, n))

\* OrderedBinaryTree::splay<update_sizes>(n, top)
tree_splay(T, n, top, update_sizes) ==
  LET h1 == node_splay(T.nodes, n, top, update_sizes)
  IN MkTree(h1, IF top = Null THEN n ELSE T.root, T.first, T.last)

\* variant: root, first and last stay on the nodes they designated
tree_swap_nodes_stale_handle(T, n1, n2) ==
  IF n1 = n2 THEN T
  ELSE MkTree(node_swap(T.nodes, n1, n2), T.root, T.first, T.last)

\* OrderedBinaryTree::swap_nodes(n1, n2)
tree_swap_nodes(T, n1, n2) ==
  IF n1 = n2 THEN T
  ELSE LET sw(x) == IF x = n1 THEN n2 ELSE IF x = n2 THEN n1 ELSE x
       IN MkTree(node_swap(T.nodes, n1, n2),
                 sw(T.root), sw(T.first), sw(T.last))

\* the handle after n->erase() returned e: the root follows the replacement
\* node, first and last are the ones chosen before, n is destroyed
Erased(T, n, f, l, e, delete_node) ==
  [tree |-> MkTree(IF delete_node THEN destroy_node(e.nodes, n) ELSE e.nodes,
                   IF T.root = n THEN e.first ELSE T.root, f, l),
   first |-> e.first, second |-> e.second]

\* variant: the cached first and last are not moved off the erased node
tree_erase_stale_ends(T, n, update_sizes, delete_node) ==
  Erased(T, n, T.first, T.last, node_erase(T.nodes, n, update_sizes),
         delete_node)

\* OrderedBinaryTree::erase<update_sizes, delete_node>(n)
tree_erase(T, n, update_sizes, delete_node) ==
  LET h == T.nodes
      f == IF T.first = n THEN find_next_node(h, T.first) ELSE T.first
      l == IF T.last = n THEN find_prev_node(h, T.last) ELSE T.last
  IN Erased(T, n, f, l, node_erase(h, n, update_sizes), delete_node)

\* ====================== strategy: BasicTreeImpl ==========================
\* Strategy operators return [tree, ret]; `threw` is set by those that
\* allocate more than once and stopped at a failing allocation.

\* Node::make_insert_position called through tree.first / tree.last
basic_emplace_front(T, v) ==
  tree_emplace(T, InsertPosition(T.first, TRUE), v, TRUE)

basic_emplace_back(T, v) ==
  tree_emplace(T, InsertPosition(T.last, FALSE), v, TRUE)

\* variant: the position after `node` is used instead of the one before it
basic_emplace_node_after(T, node, v) ==
  tree_emplace(T,
               IF node # Null THEN get_next_insert_position(T.nodes, node)
               ELSE get_last_insert_position(T),
               v, TRUE)

basic_emplace_node_before(T, node, v) ==
  tree_emplace(T,
               IF node # Null THEN get_prev_insert_position(T.nodes, node)
               ELSE get_last_insert_position(T),
               v, TRUE)

\* the loop of insert_nodes_before: each further value becomes the right
\* child of the node created before it; `avail` allocations succeed
RECURSIVE insert_nodes_loop(_, _, _, _)
RECURSIVE insert_nodes_step(_, _, _)
insert_nodes_loop(T, node, vs, avail) ==
  IF vs = <<>> THEN [tree |-> T, ret |-> node, threw |-> FALSE]
  ELSE IF avail = 0 THEN [tree |-> T, ret |-> node, threw |-> TRUE]
  ELSE insert_nodes_step(LinkCreated(T, create_node(T.nodes, Head(vs)),
                                     InsertPosition(node, FALSE), TRUE),
                         Tail(vs), avail - 1)
insert_nodes_step(e, vs, avail) ==
  insert_nodes_loop(e.tree, e.ret, vs, avail)

\* return first_new_node, with the tree the loop left
ReturnFirstNew(first_new_node, r) ==
  [tree |-> r.tree, ret |-> first_new_node, threw |-> r.threw]

\* the loop of insert_nodes_before started at the first new node, which the
\* emplace_node_before call returned as e
InsertAfterFirstNew(e, vs, avail) ==
  ReturnFirstNew(e.ret, insert_nodes_loop(e.tree, e.ret, vs, avail))

basic_insert_nodes_before(T, node, vs, avail) ==
  IF vs = <<>> THEN [tree |-> T, ret |-> Null, threw |-> FALSE]
  ELSE IF avail = 0 THEN [tree |-> T, ret |-> Null, threw |-> TRUE]
  ELSE InsertAfterFirstNew(basic_emplace_node_before(T, node, Head(vs)),
                           Tail(vs), avail - 1)

basic_erase_front(T) ==
  [tree |-> tree_erase(T, T.first, TRUE, TRUE).tree, ret |-> Null]

basic_erase_back(T) ==
  [tree |-> tree_erase(T, T.last, TRUE, TRUE).tree, ret |-> Null]

\* variant: the position before the erased node is returned
basic_erase_node_prev(T, node) ==
  [tree |-> tree_erase(T, node, TRUE, TRUE).tree,
   ret |-> find_prev_node(T.nodes, node)]

basic_erase_node(T, node) ==
  [tree |-> tree_erase(T, node, TRUE, TRUE).tree,
   ret |-> find_next_node(T.nodes, node)]

RECURSIVE basic_erase_nodes(_, _, _)
basic_erase_nodes(T, begin, end) ==
  IF begin # end
  THEN basic_erase_nodes(tree_erase(T, begin, TRUE, TRUE).tree,
                         find_next_node(T.nodes, begin), end)
  ELSE [tree |-> T, ret |-> begin]

\* positional access of the baseline: the plain rank descent
basic_find_node_at_index(T, index) ==
  [tree |-> T, ret |-> tree_find_node_at_index(T, index)]

\* ====================== strategy: SplayTreeImpl =========================
\* variant: the node found changes places with the root
SplayFoundBySwap(T, n) ==
  [tree |-> IF n # Null THEN tree_swap_nodes(T, n, T.root) ELSE T, ret |-> n]

\* if (n) tree.splay(n); return n
SplayFound(T, n) ==
  [tree |-> IF n # Null THEN tree_splay(T, n, Null, TRUE) ELSE T, ret |-> n]

splay_find_node_at_index(T, index) ==
  SplayFound(T, tree_find_node_at_index(T, index))

\* tree.emplace(tree.get_first_insert_position(), args...)
EmplaceFirst(T, v) == tree_emplace(T, get_first_insert_position(T), v, TRUE)

\* tree.emplace(tree.get_last_insert_position(), args...)
EmplaceLast(T, v) == tree_emplace(T, get_last_insert_position(T), v, TRUE)

splay_emplace_front(T, v) ==
  IF tree_empty(T) THEN tree_emplace(T, InsertPosition(Null, FALSE), v, TRUE)
  ELSE EmplaceFirst(tree_splay(T, T.first, Null, TRUE), v)

splay_emplace_back(T, v) ==
  IF tree_empty(T) THEN tree_emplace(T, InsertPosition(Null, FALSE), v, TRUE)
  ELSE EmplaceLast(tree_splay(T, T.last, Null, TRUE), v)

\* variant: the new node stays where tree.emplace linked it
SplayEmplacedInPlace(e) == e

\* tree.splay(n); return n, for the node n that tree.emplace returned as e
SplayEmplaced(e) ==
  [tree |-> tree_splay(e.tree, e.ret, Null, TRUE), ret |-> e.ret]

splay_emplace_node_before(T, node, v) ==
  SplayEmplaced(basic_emplace_node_before(T, node, v))

\* tree.splay(last_node); return first_new_node, once the loop returned r;
\* the splay is not reached when an allocation threw
SplayLastNew(first_new_node, r) ==
  IF r.threw THEN [tree |-> r.tree, ret |-> Null, threw |-> TRUE]
  ELSE [tree |-> tree_splay(r.tree, r.ret, Null, TRUE),
        ret |-> first_new_node, threw |-> FALSE]

\* the loop of insert_nodes_before started at the first new node, then the
\* splay of the last one
SplayAfterFirstNew(e, vs, avail) ==
  SplayLastNew(e.ret, insert_nodes_loop(e.tree, e.ret, vs, avail))

splay_insert_nodes_before(T, node, vs, avail) ==
  IF vs = <<>> THEN [tree |-> T, ret |-> node, threw |-> FALSE]
  ELSE IF avail = 0 THEN [tree |-> T, ret |-> Null, threw |-> TRUE]
  ELSE SplayAfterFirstNew(basic_emplace_node_before(T, node, Head(vs)),
                          Tail(vs), avail - 1)

\* tree.splay(tree.first); tree.erase<true, true>(tree.first)
splay_erase_front(T) ==
  basic_erase_front(tree_splay(T, T.first, Null, TRUE))

\* tree.splay(tree.last); tree.erase<true, true>(tree.last)
splay_erase_back(T) ==
  basic_erase_back(tree_splay(T, T.last, Null, TRUE))

\* if (p) tree.splay(p); return next_node, for p the second node that
\* tree.erase returned as e
SplayErased(e, next_node) ==
  [tree |-> IF e.second # Null THEN tree_splay(e.tree, e.second, Null, TRUE)
            ELSE e.tree,
   ret |-> next_node]

splay_erase_node(T, node) ==
  SplayErased(tree_erase(T, node, TRUE, TRUE),
              find_next_node(T.nodes, node))

\* traverse_postorder(sub, destroy_node) after tree.unlink(sub): post is the
\* postorder of sub taken before the unlink, which leaves sub's links alone
DestroySub(T, post, end) ==
  [tree |-> [T EXCEPT !.nodes = destroy_nodes(T.nodes, post)], ret |-> end]

\* tree.unlink(sub) and the destruction of the nodes of sub
UnlinkSub(T, sub, end) ==
  DestroySub(tree_unlink(T, sub, TRUE).tree,
             traverse_postorder(T.nodes, sub), end)

\* variant: everything before end is taken, whatever prev is
EraseSubBeforeEnd(T, prev, end) ==
  UnlinkSub(T,
            IF end # Null THEN T.nodes[end].left_child ELSE T.root,
            end)

\* the choice of sub once end, then prev under end, have been splayed
EraseSub(T, prev, end) ==
  UnlinkSub(T,
            IF prev # Null THEN T.nodes[prev].right_child
            ELSE IF end # Null THEN T.nodes[end].left_child
            ELSE T.root,
            end)

\* if (prev) tree.splay(prev, end)
SplayPrev(T, prev, end) ==
  EraseSub(IF prev # Null THEN tree_splay(T, prev, end, TRUE) ELSE T,
           prev, end)

\* prev = begin->find_prev_node(), after end has been splayed
EraseAfter(T, begin, end) ==
  SplayPrev(T, find_prev_node(T.nodes, begin), end)

\* variant: the range is taken to reach the last element
splay_erase_nodes_to_end(T, begin, end) ==
  IF begin = end THEN [tree |-> T, ret |-> end]
  ELSE EraseAfter(T, begin, Null)

splay_erase_nodes(T, begin, end) ==
  IF begin = end THEN [tree |-> T, ret |-> end]
  ELSE EraseAfter(IF end # Null THEN tree_splay(T, end, Null, TRUE) ELSE T,
                  begin, end)

\* ---- the same operations when the node allocation throws ----
\* BasicTreeImpl::emplace_front / emplace_back / emplace_node_before: the
\* position is computed, create_node throws inside tree.emplace before link
basic_emplace_failing(T) == T

\* SplayTreeImpl::emplace_front: tree.splay(tree.first) has run when
\* tree.emplace throws
splay_emplace_front_failing(T) ==
  IF tree_empty(T) THEN T ELSE tree_splay(T, T.first, Null, TRUE)

\* SplayTreeImpl::emplace_back: tree.splay(tree.last) has run when
\* tree.emplace throws
splay_emplace_back_failing(T) ==
  IF tree_empty(T) THEN T ELSE tree_splay(T, T.last, Null, TRUE)

\* SplayTreeImpl::emplace_node_before: tree.emplace throws before the splay
splay_emplace_node_before_failing(T) == T

\* ============================== state ===================================
TreeOf(t) == MkTree(nodes, root[t], first[t], last[t])

Inorder(t) == traverse_inorder(nodes, root[t])

InorderData(t) == [i \in 1..Len(Inorder(t)) |-> nodes[Inorder(t)[i]].data]

\* the node at ordinal i of tree t, Null (the end iterator) for i = size
NodeAt(t, i) == IF i < Len(Inorder(t)) THEN Inorder(t)[i + 1] ELSE Null

Allocated == Cardinality(DOMAIN nodes)

\* the values the user inserts: the least values not stored yet
RECURSIVE FreshValues(_, _)
FreshValues(used, k) ==
  IF k = 0 THEN <<>>
  ELSE LET v == CHOOSE x \in 1..(Cardinality(used) + 1) :
                  x \notin used /\ \A y \in 1..(x - 1) : y \in used
       IN <<v>> \o FreshValues(used \cup {v}, k - 1)

NewValues(k) == FreshValues({nodes[n].data : n \in DOMAIN nodes}, k)

NewValue == NewValues(1)[1]

\* no operation runs after a trap or between a rotation and the size
\* refreshes that its caller owes
Alive == op.status # "crashed" /\ pending = <<>>

\* a detached subtree (the handle returned by unlink_subtree) is linked back
\* before anything else is done to the tree
Running == Alive /\ root[2] = Null

\* the tree is the private member of a ManagedTree<TreeImpl>: only the
\* facade operates on it
Managed == Running /\ strategy \in Strategies

\* the tree is an OrderedBinaryTree its owner operates on directly
Direct == Running /\ strategy = Bare

SetOp(name, status, ret) ==
  op' = [name |-> name, status |-> status, ret |-> ret]

Commit(t, T) ==
  /\ nodes' = T.nodes
  /\ root' = [root EXCEPT ![t] = T.root]
  /\ first' = [first EXCEPT ![t] = T.first]
  /\ last' = [last EXCEPT ![t] = T.last]

Init ==
  /\ nodes = <<>>
  /\ root = [t \in Trees |-> Null]
  /\ first = [t \in Trees |-> Null]
  /\ last = [t \in Trees |-> Null]
  /\ strategy \in Strategies \cup {Bare}
  /\ ref = [t \in Trees |-> <<>>]
  /\ pending = <<>>
  /\ op = [name |-> "init", status |-> "ok", ret |-> <<>>]

\* ========================= facade: ManagedTree ==========================
\* TreeImpl::emplace_front on an empty baseline tree calls a member function
\* through the absent tree.first: undefined behaviour, which a build turns
\* either into the position {Null, true} or into a trap.
UBOutcomes == {"benign", "trap"}

\* push_front / emplace_front
PushFront(t) ==
  /\ Managed /\ Allocated < MaxNodes
  /\ LET T == TreeOf(t)
         v == NewValue
     IN /\ ref' = [ref EXCEPT ![t] = <<v>> \o @]
        /\ IF strategy = "splay"
           THEN /\ Commit(t, splay_emplace_front(T, v).tree)
                /\ SetOp("push_front", "ok", <<>>)
           ELSE \E outcome \in UBOutcomes :
                  IF T.first = Null /\ outcome = "trap"
                  THEN /\ UNCHANGED <<nodes, root, first, last>>
                       /\ SetOp("push_front", "crashed", <<>>)
                  ELSE /\ Commit(t, basic_emplace_front(T, v).tree)
                       /\ SetOp("push_front", "ok", <<>>)
  /\ UNCHANGED <<strategy, pending>>

\* push_back / emplace_back
PushBack(t) ==
  /\ Managed /\ Allocated < MaxNodes
  /\ LET T == TreeOf(t)
         v == NewValue
     IN /\ ref' = [ref EXCEPT ![t] = @ \o <<v>>]
        /\ IF strategy = "splay"
           THEN /\ Commit(t, splay_emplace_back(T, v).tree)
                /\ SetOp("push_back", "ok", <<>>)
           ELSE \E outcome \in UBOutcomes :
                  IF T.last = Null /\ outcome = "trap"
                  THEN /\ UNCHANGED <<nodes, root, first, last>>
                       /\ SetOp("push_back", "crashed", <<>>)
                  ELSE /\ Commit(t, basic_emplace_back(T, v).tree)
                       /\ SetOp("push_back", "ok", <<>>)
  /\ UNCHANGED <<strategy, pending>>

\* insert(pos, value) / emplace(pos, args...): pos at ordinal i (size = end)
Insert(t, i) ==
  /\ Managed /\ Allocated < MaxNodes
  /\ i \in 0..Len(Inorder(t))
  /\ \E R \in {IF strategy = "splay"
              THEN splay_emplace_node_before(TreeOf(t), NodeAt(t, i), NewValue)
              ELSE basic_emplace_node_before(TreeOf(t), NodeAt(t, i), NewValue)} :
       /\ Commit(t, R.tree)
       /\ ref' = [ref EXCEPT ![t] = InsertAt(@, i, NewValue)]
       /\ SetOp("insert", "ok", <<i, R.ret>>)
  /\ UNCHANGED <<strategy, pending>>

\* insert(pos, first, last): k values before the iterator at ordinal i
InsertRange(t, i, k) ==
  /\ Managed /\ Allocated + k <= MaxNodes
  /\ i \in 0..Len(Inorder(t))
  /\ \E R \in {IF strategy = "splay"
              THEN splay_insert_nodes_before(TreeOf(t), NodeAt(t, i),
                                             NewValues(k), k)
              ELSE basic_insert_nodes_before(TreeOf(t), NodeAt(t, i),
                                             NewValues(k), k)} :
       /\ Commit(t, R.tree)
       /\ ref' = [ref EXCEPT ![t] = InsertSeqAt(@, i, NewValues(k))]
       /\ SetOp("insert_range", "ok", <<i, R.ret>>)
  /\ UNCHANGED <<strategy, pending>>

PopFront(t) ==
  /\ Managed /\ root[t] # Null
  /\ Commit(t, IF strategy = "splay" THEN splay_erase_front(TreeOf(t)).tree
               ELSE basic_erase_front(TreeOf(t)).tree)
  /\ ref' = [ref EXCEPT ![t] = Tail(@)]
  /\ SetOp("pop_front", "ok", <<>>)
  /\ UNCHANGED <<strategy, pending>>

PopBack(t) ==
  /\ Managed /\ root[t] # Null
  /\ Commit(t, IF strategy = "splay" THEN splay_erase_back(TreeOf(t)).tree
               ELSE basic_erase_back(TreeOf(t)).tree)
  /\ ref' = [ref EXCEPT ![t] = SubSeq(@, 1, Len(@) - 1)]
  /\ SetOp("pop_back", "ok", <<>>)
  /\ UNCHANGED <<strategy, pending>>

\* erase(pos): pos at ordinal i < size
Erase(t, i) ==
  /\ Managed
  /\ i \in 0..(Len(Inorder(t)) - 1)
  /\ \E R \in {IF strategy = "splay"
              THEN splay_erase_node(TreeOf(t), NodeAt(t, i))
              ELSE basic_erase_node(TreeOf(t), NodeAt(t, i))} :
       /\ Commit(t, R.tree)
       /\ ref' = [ref EXCEPT ![t] = RemoveAt(@, i)]
       /\ SetOp("erase", "ok", <<i, R.ret>>)
  /\ UNCHANGED <<strategy, pending>>

\* erase(first, last): iterators at ordinals i <= j
EraseRange(t, i, j) ==
  /\ Managed
  /\ i \in 0..Len(Inorder(t)) /\ j \in i..Len(Inorder(t))
  /\ \E R \in {IF strategy = "splay"
              THEN splay_erase_nodes(TreeOf(t), NodeAt(t, i), NodeAt(t, j))
              ELSE basic_erase_nodes(TreeOf(t), NodeAt(t, i), NodeAt(t, j))} :
       /\ Commit(t, R.tree)
       /\ ref' = [ref EXCEPT ![t] = RemoveRange(@, i, j)]
       /\ SetOp("erase_range", "ok", <<i, j, R.ret>>)
  /\ UNCHANGED <<strategy, pending>>

\* variant: the handle is emptied, the nodes are not destroyed
ClearAbandoning(t) ==
  /\ Managed /\ root[t] # Null
  /\ Commit(t, tree_clear(TreeOf(t)))
  /\ ref' = [ref EXCEPT ![t] = <<>>]
  /\ SetOp("clear", "ok", <<>>)
  /\ UNCHANGED <<strategy, pending>>

Clear(t) ==
  /\ Managed /\ root[t] # Null
  /\ Commit(t, destroy_all_nodes(TreeOf(t)))
  /\ ref' = [ref EXCEPT ![t] = <<>>]
  /\ SetOp("clear", "ok", <<>>)
  /\ UNCHANGED <<strategy, pending>>

\* TreeImpl::find_node_at_index of the facade's strategy
impl_find_node_at_index(T, index) ==
  IF strategy = "splay" THEN splay_find_node_at_index(T, index)
  ELSE basic_find_node_at_index(T, index)

\* operator[](index), get_iterator_at_index(index): index < size
Subscript(t, k) ==
  /\ Managed
  /\ k \in 0..(Len(Inorder(t)) - 1)
  /\ \E R \in {impl_find_node_at_index(TreeOf(t), k)} :
       /\ Commit(t, R.tree)
       /\ SetOp("subscript", "ok", <<k, nodes[R.ret].data>>)
  /\ UNCHANGED <<strategy, pending, ref>>

\* variant: the lookup runs on the clamped index before the range check
AtLookupFirst(t, k) ==
  /\ Managed
  /\ k \in 0..MaxNodes
  /\ LET T == TreeOf(t)
         c == IF k >= tree_size(T) THEN tree_size(T) - 1 ELSE k
     IN IF tree_size(T) = 0
        THEN /\ UNCHANGED <<nodes, root, first, last>>
             /\ SetOp("at", "out_of_range", <<k, Null>>)
        ELSE \E R \in {impl_find_node_at_index(T, c)} :
               /\ Commit(t, R.tree)
               /\ IF k >= tree_size(T)
                  THEN SetOp("at", "out_of_range", <<k, Null>>)
                  ELSE SetOp("at", "ok", <<k, nodes[R.ret].data>>)
  /\ UNCHANGED <<strategy, pending, ref>>

\* at(pos): throws std::out_of_range when pos >= size()
At(t, k) ==
  /\ Managed
  /\ k \in 0..MaxNodes
  /\ LET T == TreeOf(t)
     IN IF k >= tree_size(T)
        THEN /\ UNCHANGED <<nodes, root, first, last>>
             /\ SetOp("at", "out_of_range", <<k, Null>>)
        ELSE \E R \in {impl_find_node_at_index(T, k)} :
               /\ Commit(t, R.tree)
               /\ SetOp("at", "ok", <<k, nodes[R.ret].data>>)
  /\ UNCHANGED <<strategy, pending, ref>>

\* ===================== tree handle: OrderedBinaryTree ===================
IndexOf(s, x) == CHOOSE i \in 1..Len(s) : s[i] = x

SwapAt(s, i, j) ==
  [k \in 1..Len(s) |-> IF k = i THEN s[j] ELSE IF k = j THEN s[i] ELSE s[k]]

\* emplace_at_index(index, args...) with index = k <= size
EmplaceAtIndex(t, k) ==
  /\ Direct
  /\ k \in 0..Len(Inorder(t))
  /\ \E R \in {tree_emplace_at_index(TreeOf(t), k, NewValue, TRUE)} :
       /\ Commit(t, R.tree)
       /\ ref' = [ref EXCEPT ![t] = InsertAt(@, k, NewValue)]
       /\ SetOp("emplace_at_index", "ok", <<k, R.ret>>)
  /\ UNCHANGED <<strategy, pending>>

TreeEmplaceAtIndex(t, k) == Allocated < MaxNodes /\ EmplaceAtIndex(t, k)

\* variant: the two nodes returned change places
TreeEraseRefreshFirst(t, i) ==
  /\ Direct
  /\ i \in 0..(Len(Inorder(t)) - 1)
  /\ \E R \in {tree_erase(TreeOf(t), NodeAt(t, i), TRUE, TRUE)} :
       /\ Commit(t, R.tree)
       /\ ref' = [ref EXCEPT ![t] = RemoveAt(@, i)]
       /\ SetOp("tree_erase", "ok", <<R.second, R.first>>)
  /\ UNCHANGED <<strategy, pending>>

\* erase<true, true>(n) for the node at ordinal i (delete_at_index)
TreeErase(t, i) ==
  /\ Direct
  /\ i \in 0..(Len(Inorder(t)) - 1)
  /\ \E R \in {tree_erase(TreeOf(t), NodeAt(t, i), TRUE, TRUE)} :
       /\ Commit(t, R.tree)
       /\ ref' = [ref EXCEPT ![t] = RemoveAt(@, i)]
       /\ SetOp("tree_erase", "ok", <<R.first, R.second>>)
  /\ UNCHANGED <<strategy, pending>>

\* variant: n is splayed to the root whatever `top` is
TreeSplayToRoot(t, i, top) ==
  /\ Direct
  /\ i \in 0..(Len(Inorder(t)) - 1)
  /\ \E n \in {NodeAt(t, i)} :
       /\ top = Null \/ (top \in DOMAIN nodes /\ top # n
                         /\ is_under(nodes, n, top))
       /\ Commit(t, tree_splay(TreeOf(t), n, Null, TRUE))
       /\ SetOp("splay", "ok", <<n>>)
  /\ UNCHANGED <<strategy, pending, ref>>

\* splay<true>(n, top): n at ordinal i, top absent or a proper ancestor of n
TreeSplay(t, i, top) ==
  /\ Direct
  /\ i \in 0..(Len(Inorder(t)) - 1)
  /\ \E n \in {NodeAt(t, i)} :
       /\ top = Null \/ (top \in DOMAIN nodes /\ top # n
                         /\ is_under(nodes, n, top))
       /\ Commit(t, tree_splay(TreeOf(t), n, top, TRUE))
       /\ SetOp("splay", "ok", <<n>>)
  /\ UNCHANGED <<strategy, pending, ref>>

\* swap_nodes(n1, n2): the nodes at ordinals i and j
TreeSwapNodes(t, i, j) ==
  /\ Direct
  /\ i \in 0..(Len(Inorder(t)) - 1) /\ j \in 0..(Len(Inorder(t)) - 1)
  /\ Commit(t, tree_swap_nodes(TreeOf(t), NodeAt(t, i), NodeAt(t, j)))
  /\ ref' = [ref EXCEPT ![t] = SwapAt(@, i + 1, j + 1)]
  /\ SetOp("swap_nodes", "ok", <<NodeAt(t, i), NodeAt(t, j)>>)
  /\ UNCHANGED <<strategy, pending>>

\* rotate_left(n); the caller then refreshes n and its new parent
TreeRotateLeft(t, i) ==
  /\ Direct
  /\ i \in 0..(Len(Inorder(t)) - 1)
  /\ nodes[NodeAt(t, i)].right_child # Null
  /\ \E T1 \in {tree_rotate_left(TreeOf(t), NodeAt(t, i))} :
       /\ Commit(t, T1)
       /\ pending' = <<NodeAt(t, i), T1.nodes[NodeAt(t, i)].parent>>
       /\ SetOp("rotate_left", "ok", <<NodeAt(t, i)>>)
  /\ UNCHANGED <<strategy, ref>>

\* rotate_right(n); the caller then refreshes n and its new parent
TreeRotateRight(t, i) ==
  /\ Direct
  /\ i \in 0..(Len(Inorder(t)) - 1)
  /\ nodes[NodeAt(t, i)].left_child # Null
  /\ \E T1 \in {tree_rotate_right(TreeOf(t), NodeAt(t, i))} :
       /\ Commit(t, T1)
       /\ pending' = <<NodeAt(t, i), T1.nodes[NodeAt(t, i)].parent>>
       /\ SetOp("rotate_right", "ok", <<NodeAt(t, i)>>)
  /\ UNCHANGED <<strategy, ref>>

\* n->update_size() of the caller of rotate
UpdateSize ==
  /\ pending # <<>>
  /\ nodes' = update_size(nodes, Head(pending))
  /\ pending' = Tail(pending)
  /\ UNCHANGED <<root, first, last, strategy, ref, op>>

\* variant: the first node of the new handle is its root
TreeUnlinkSubtreeFirstAtRoot(t, i, o) ==
  /\ Direct
  /\ o # t /\ root[o] = Null
  /\ i \in 0..(Len(Inorder(t)) - 1)
  /\ \E n \in {NodeAt(t, i)} :
     \E U \in {tree_unlink(TreeOf(t), n, TRUE)} :
     \E sub \in {traverse_inorder(nodes, n)} :
     \E a \in {IndexOf(Inorder(t), sub[1]) - 1} :
       /\ nodes' = U.tree.nodes
       /\ root' = [root EXCEPT ![t] = U.tree.root, ![o] = n]
       /\ first' = [first EXCEPT ![t] = U.tree.first,
                                 ![o] = n]
       /\ last' = [last EXCEPT ![t] = U.tree.last,
                               ![o] = find_last_node(U.tree.nodes, n)]
       /\ ref' = [ref EXCEPT ![t] = RemoveRange(@, a, a + Len(sub)),
                             ![o] = SubSeq(ref[t], a + 1, a + Len(sub))]
       /\ SetOp("unlink_subtree", "ok", <<i, n>>)
  /\ UNCHANGED <<strategy, pending>>

\* unlink_subtree(n): the subtree of the node at ordinal i of tree t becomes
\* the tree of the new handle o
TreeUnlinkSubtree(t, i, o) ==
  /\ Direct
  /\ o # t /\ root[o] = Null
  /\ i \in 0..(Len(Inorder(t)) - 1)
  /\ \E n \in {NodeAt(t, i)} :
     \E U \in {tree_unlink(TreeOf(t), n, TRUE)} :
     \E sub \in {traverse_inorder(nodes, n)} :
     \E a \in {IndexOf(Inorder(t), sub[1]) - 1} :
       /\ nodes' = U.tree.nodes
       /\ root' = [root EXCEPT ![t] = U.tree.root, ![o] = n]
       /\ first' = [first EXCEPT ![t] = U.tree.first,
                                 ![o] = find_first_node(U.tree.nodes, n)]
       /\ last' = [last EXCEPT ![t] = U.tree.last,
                               ![o] = find_last_node(U.tree.nodes, n)]
       /\ ref' = [ref EXCEPT ![t] = RemoveRange(@, a, a + Len(sub)),
                             ![o] = SubSeq(ref[t], a + 1, a + Len(sub))]
       /\ SetOp("unlink_subtree", "ok", <<i, n>>)
  /\ UNCHANGED <<strategy, pending>>

\* link_subtree(pos, This&& other) with pos the insert position of ordinal k
TreeLinkSubtree(t, k, o) ==
  /\ Alive /\ strategy = Bare
  /\ o # t /\ root[o] # Null
  /\ k \in 0..Len(Inorder(t))
  /\ \E T1 \in {tree_link_subtree(
                  TreeOf(t), tree_get_insert_position_for_index(TreeOf(t), k),
                  TreeOf(o), TRUE)} :
       /\ nodes' = T1.nodes
       /\ root' = [root EXCEPT ![t] = T1.root, ![o] = Null]
       /\ first' = [first EXCEPT ![t] = T1.first, ![o] = Null]
       /\ last' = [last EXCEPT ![t] = T1.last, ![o] = Null]
       /\ ref' = [ref EXCEPT ![t] = InsertSeqAt(@, k, ref[o]), ![o] = <<>>]
       /\ SetOp("link_subtree", "ok", <<>>)
  /\ UNCHANGED <<strategy, pending>>

\* ============================ specification =============================
Facade == {1}

FacadeNext ==
  \/ \E t \in Facade : PushFront(t)
  \/ \E t \in Facade : PushBack(t)
  \/ \E t \in Facade, i \in 0..MaxNodes : Insert(t, i)
  \/ \E t \in Facade, i \in 0..MaxNodes, k \in 0..MaxBulk : InsertRange(t, i, k)
  \/ \E t \in Facade : PopFront(t)
  \/ \E t \in Facade : PopBack(t)
  \/ \E t \in Facade, i \in 0..MaxNodes : Erase(t, i)
  \/ \E t \in Facade, i \in 0..MaxNodes, j \in 0..MaxNodes : EraseRange(t, i, j)
  \/ \E t \in Facade : Clear(t)
  \/ \E t \in Facade, k \in 0..MaxNodes : Subscript(t, k)
  \/ \E t \in Facade, k \in 0..MaxNodes : At(t, k)

HandleNext ==
  \/ \E t \in Facade, k \in 0..MaxNodes : TreeEmplaceAtIndex(t, k)
  \/ \E t \in Facade, i \in 0..MaxNodes : TreeErase(t, i)
  \/ \E t \in Facade, i \in 0..MaxNodes, top \in 0..MaxNodes : TreeSplay(t, i, top)
  \/ \E t \in Facade, i \in 0..MaxNodes, j \in 0..MaxNodes : TreeSwapNodes(t, i, j)
  \/ \E t \in Facade, i \in 0..MaxNodes : TreeRotateLeft(t, i)
  \/ \E t \in Facade, i \in 0..MaxNodes : TreeRotateRight(t, i)
  \/ UpdateSize
  \/ \E t \in Facade, i \in 0..MaxNodes : TreeUnlinkSubtree(t, i, 2)
  \/ \E t \in Facade, k \in 0..MaxNodes : TreeLinkSubtree(t, k, 2)

Next == FacadeNext \/ HandleNext

Spec == Init /\ [][Next]_vars

\* ---- the facade with an allocator that can fail ----
PushFrontFail(t) ==
  /\ Managed
  /\ strategy = "basic" => root[t] # Null
  /\ Commit(t, IF strategy = "splay"
               THEN splay_emplace_front_failing(TreeOf(t))
               ELSE basic_emplace_failing(TreeOf(t)))
  /\ SetOp("push_front", "bad_alloc", <<>>)
  /\ UNCHANGED <<strategy, pending, ref>>

PushBackFail(t) ==
  /\ Managed
  /\ strategy = "basic" => root[t] # Null
  /\ Commit(t, IF strategy = "splay"
               THEN splay_emplace_back_failing(TreeOf(t))
               ELSE basic_emplace_failing(TreeOf(t)))
  /\ SetOp("push_back", "bad_alloc", <<>>)
  /\ UNCHANGED <<strategy, pending, ref>>

InsertFail(t, i) ==
  /\ Managed
  /\ i \in 0..Len(Inorder(t))
  /\ Commit(t, IF strategy = "splay"
               THEN splay_emplace_node_before_failing(TreeOf(t))
               ELSE basic_emplace_failing(TreeOf(t)))
  /\ SetOp("insert", "bad_alloc", <<>>)
  /\ UNCHANGED <<strategy, pending, ref>>

\* the values a tree state holds, in order
DataOf(T) ==
  [i \in 1..tree_size(T) |->
     T.nodes[traverse_inorder(T.nodes, T.root)[i]].data]

\* insert(pos, first, last) of k values; the allocation after `avail`
\* successful ones throws.  The user who catches the exception goes on with
\* what the container holds, so the reference list is read back from it.
InsertRangeFail(t, i, k, avail) ==
  /\ Managed /\ avail < k /\ Allocated + avail <= MaxNodes
  /\ i \in 0..Len(Inorder(t))
  /\ \E R \in {IF strategy = "splay"
              THEN splay_insert_nodes_before(TreeOf(t), NodeAt(t, i),
                                             NewValues(k), avail)
              ELSE basic_insert_nodes_before(TreeOf(t), NodeAt(t, i),
                                             NewValues(k), avail)} :
       /\ R.threw
       /\ Commit(t, R.tree)
       /\ ref' = [ref EXCEPT ![t] = DataOf(R.tree)]
       /\ SetOp("insert_range", "bad_alloc", <<>>)
  /\ UNCHANGED <<strategy, pending>>

AllocFailNext ==
  \/ \E t \in Facade : PushFrontFail(t)
  \/ \E t \in Facade : PushBackFail(t)
  \/ \E t \in Facade, i \in 0..MaxNodes : InsertFail(t, i)
  \/ \E t \in Facade, i \in 0..MaxNodes, k \in 1..MaxBulk, avail \in 0..MaxBulk :
       InsertRangeFail(t, i, k, avail)

SpecAlloc == Init /\ [][FacadeNext \/ AllocFailNext]_vars

\* ---- the positional insert ladder of test_insertions_1 ----
\* the indices of the first ten insertions; the values "a" .. "j" are
\* written 1 .. 10, the step-th insertion storing the value `step`
test_insertions_1 == <<0, 0, 0, 0, 1, 1, 3, 3, 8, 9>>

LadderDone == Allocated = Len(test_insertions_1)

LadderStep(t) ==
  /\ ~LadderDone /\ Len(Inorder(t)) = Allocated
  /\ EmplaceAtIndex(t, test_insertions_1[Allocated + 1])

\* between insertions the caller may splay any node of a small tree: the
\* ladder's result does not depend on the shape
LadderSplay(t, i, top) == Allocated <= MaxNodes /\ TreeSplay(t, i, top)

LadderNext ==
  \/ \E t \in Facade : LadderStep(t)
  \/ \E t \in Facade, i \in 0..MaxNodes, top \in 0..MaxNodes :
       LadderSplay(t, i, top)

SpecLadder == Init /\ [][LadderNext]_vars

\* ---- two containers: splicing ----
\* TreeImpl::join(tree, pos, other): all nodes of `other` are moved into
\* `tree` at pos, as link_subtree(pos, std::move(other)) does
impl_join(T, pos, O) == tree_link_subtree(T, pos, O, TRUE)

JoinKinds == {"join", "join_front", "join_back"}

\* the position ManagedTree::join computes from pos.node_; join_front and
\* join_back leave the choice to TreeImpl: the first and the last position
JoinPosition(T, how, node) ==
  IF how = "join_front" THEN get_first_insert_position(T)
  ELSE IF how = "join" /\ node # Null
  THEN get_prev_insert_position(T.nodes, node)
  ELSE get_last_insert_position(T)

\* variant: the end position is returned whatever the operation
JoinNothingEnd(t, how, i) == Null

\* what the three operations return when `other` is empty
JoinNothing(t, how, i) ==
  IF how = "join" THEN NodeAt(t, i)
  ELSE IF how = "join_front" THEN first[t] ELSE Null

\* join(pos, other) with pos at ordinal i, join_front(other) (i = 0) and
\* join_back(other) (i = size); tree o is the container `other`
Join(t, how, i, o) ==
  /\ Alive /\ strategy \in Strategies
  /\ o # t
  /\ i = IF how = "join_front" THEN 0
         ELSE IF how = "join_back" THEN Len(Inorder(t)) ELSE i
  /\ i \in 0..Len(Inorder(t))
  /\ IF root[o] = Null
     THEN /\ UNCHANGED <<nodes, root, first, last, ref>>
          /\ SetOp(how, "ok", <<i, 0, JoinNothing(t, how, i)>>)
     ELSE \E T1 \in {impl_join(TreeOf(t),
                               JoinPosition(TreeOf(t), how, NodeAt(t, i)),
                               TreeOf(o))} :
            /\ nodes' = T1.nodes
            /\ root' = [root EXCEPT ![t] = T1.root, ![o] = Null]
            /\ first' = [first EXCEPT ![t] = T1.first, ![o] = Null]
            /\ last' = [last EXCEPT ![t] = T1.last, ![o] = Null]
            /\ ref' = [ref EXCEPT ![t] = InsertSeqAt(@, i, ref[o]),
                                  ![o] = <<>>]
            /\ SetOp(how, "ok", <<i, Len(Inorder(o)), first[o]>>)
  /\ UNCHANGED <<strategy, pending>>

\* the second container is filled by one bulk insert while it is empty
JoinNext ==
  \/ \E k \in 1..MaxBulk : InsertRange(2, 0, k)
  \/ \E t \in Facade, how \in JoinKinds, i \in 0..MaxNodes : Join(t, how, i, 2)

SpecJoin == Init /\ [][FacadeNext \/ JoinNext]_vars

\* ---- two trees: linking a whole tree, cloning ----
\* OrderedBinaryTree::link_subtree_at_index<update_sizes>(index, other)
tree_link_subtree_at_index(T, index, O, update_sizes) ==
  IF tree_empty(O) THEN T
  ELSE IF T.root # Null
  THEN MkTree(node_link_at_index(T.nodes, T.root, index, O.root, update_sizes),
              T.root,
              IF index = 0 THEN O.first ELSE T.first,
              IF index # 0 /\ index = tree_size(T) THEN O.last ELSE T.last)
  ELSE MkTree(T.nodes, O.root, O.first, O.last)

\* link_subtree_at_index(k, std::move(other)): tree o is linked into tree t
\* and cleared
TreeLinkSubtreeAtIndex(t, k, o) ==
  /\ Alive /\ strategy = Bare
  /\ o # t /\ root[o] # Null
  /\ k \in 0..Len(Inorder(t))
  /\ \E T1 \in {tree_link_subtree_at_index(TreeOf(t), k, TreeOf(o), TRUE)} :
       /\ nodes' = T1.nodes
       /\ root' = [root EXCEPT ![t] = T1.root, ![o] = Null]
       /\ first' = [first EXCEPT ![t] = T1.first, ![o] = Null]
       /\ last' = [last EXCEPT ![t] = T1.last, ![o] = Null]
       /\ ref' = [ref EXCEPT ![t] = InsertSeqAt(@, k, ref[o]), ![o] = <<>>]
       /\ SetOp("link_subtree_at_index", "ok", <<k, Len(Inorder(o))>>)
  /\ UNCHANGED <<strategy, pending>>

RECURSIVE clone_nodes(_, _)

\* variant: the copy shares the nodes of the source
clone_nodes_shared(h, n) == [nodes |-> h, n |-> n]

\* OrderedBinaryTree::clone_nodes(n) on the heap h: the heap with the copy
\* and the copy's root
clone_nodes(h, n) ==
  LET c == create_node(h, h[n].data)
      cloned == c.n
      h1 == SetSize(c.nodes, cloned, h[n].size)
      l == IF h[n].left_child # Null THEN clone_nodes(h1, h[n].left_child)
           ELSE [nodes |-> h1, n |-> Null]
      h2 == IF l.n # Null
            THEN SetParent(SetLeft(l.nodes, cloned, l.n), l.n, cloned)
            ELSE h1
      r == IF h[n].right_child # Null THEN clone_nodes(h2, h[n].right_child)
           ELSE [nodes |-> h2, n |-> Null]
      h3 == IF r.n # Null
            THEN SetParent(SetRight(r.nodes, cloned, r.n), r.n, cloned)
            ELSE h2
  IN [nodes |-> h3, n |-> cloned]

\* Tree o{t.clone()}: the constructor takes first and last from the new root;
\* trees of fewer than MaxNodes nodes are cloned
Clone(t, o) ==
  /\ Alive /\ strategy = Bare
  /\ o # t /\ root[o] = Null
  /\ Len(Inorder(t)) < MaxNodes
  /\ IF root[t] = Null
     THEN /\ UNCHANGED <<nodes, root, first, last, ref>>
          /\ SetOp("clone", "ok", <<Null>>)
     ELSE \E c \in {clone_nodes(nodes, root[t])} :
            /\ nodes' = c.nodes
            /\ root' = [root EXCEPT ![o] = c.n]
            /\ first' = [first EXCEPT ![o] = find_first_node(c.nodes, c.n)]
            /\ last' = [last EXCEPT ![o] = find_last_node(c.nodes, c.n)]
            /\ ref' = [ref EXCEPT ![o] = ref[t]]
            /\ SetOp("clone", "ok", <<c.n>>)
  /\ UNCHANGED <<strategy, pending>>

MutationKinds == {"emplace_in", "erase_in", "splay_in", "destroy_in"}

\* while both trees hold nodes, either of them is changed: emplace_at_index,
\* erase, splay with the node at ordinal i, or destroy_all_nodes; nodes are
\* inserted and erased while at most MaxNodes nodes are allocated
MutateEither(t, what, i) ==
  /\ Alive /\ strategy = Bare
  /\ root[1] # Null /\ root[2] # Null
  /\ what = "emplace_in" => Allocated < MaxNodes /\ i \in 0..Len(Inorder(t))
  /\ what \in {"erase_in", "splay_in"} => i \in 0..(Len(Inorder(t)) - 1)
  /\ what = "erase_in" => Allocated <= MaxNodes
  /\ what = "destroy_in" => i = 0
  /\ Commit(t, IF what = "emplace_in"
               THEN tree_emplace_at_index(TreeOf(t), i, NewValue, TRUE).tree
               ELSE IF what = "erase_in"
               THEN tree_erase(TreeOf(t), NodeAt(t, i), TRUE, TRUE).tree
               ELSE IF what = "splay_in"
               THEN tree_splay(TreeOf(t), NodeAt(t, i), Null, TRUE)
               ELSE destroy_all_nodes(TreeOf(t)))
  /\ ref' = [ref EXCEPT ![t] = IF what = "emplace_in"
                               THEN InsertAt(@, i, NewValue)
                               ELSE IF what = "erase_in" THEN RemoveAt(@, i)
                               ELSE IF what = "splay_in" THEN @ ELSE <<>>]
  /\ SetOp(what, "ok", <<t, i>>)
  /\ UNCHANGED <<strategy, pending>>

\* tree 1 is built by positional insertion and reshaped by splaying; tree 2
\* is a subtree unlinked from it, linked back at any ordinal
PairNext ==
  \/ \E k \in 0..MaxNodes : TreeEmplaceAtIndex(1, k)
  \/ \E i \in 0..MaxNodes : TreeSplay(1, i, Null)
  \/ \E i \in 0..MaxNodes : TreeUnlinkSubtree(1, i, 2)
  \/ \E k \in 0..MaxNodes : TreeLinkSubtreeAtIndex(1, k, 2)

SpecPair == Init /\ [][PairNext]_vars

\* tree 1 is built likewise; tree 2 is a clone of it
CloneNext ==
  \/ \E k \in 0..MaxNodes : TreeEmplaceAtIndex(1, k)
  \/ \E i \in 0..MaxNodes : TreeSplay(1, i, Null)
  \/ Clone(1, 2)
  \/ \E t \in Trees, what \in MutationKinds, i \in 0..MaxNodes :
       MutateEither(t, what, i)

SpecClone == Init /\ [][CloneNext]_vars

\* ---- splay, one step and one call of f at a time ----
\* op = ["splay_steps", status, <<n, top>>] is the position in
\* OrderedBinaryTree::splay(n, f, top) with f = update_node_size: "running"
\* inside the loop of OrderedBinaryTreeNode::splay, "last" once f(this) is
\* due, "ok" when the handle has set its root; `pending` holds the calls of
\* f that the step just taken owes, in the order they are made.
Splaying == op.name = "splay_steps" /\ op.status \in {"running", "last"}

SplayBegin(t, i, top) ==
  /\ Direct /\ ~Splaying
  /\ i \in 0..(Len(Inorder(t)) - 1)
  /\ top = Null \/ (top \in DOMAIN nodes /\ top # NodeAt(t, i)
                    /\ is_under(nodes, NodeAt(t, i), top))
  /\ SetOp("splay_steps", "running", <<NodeAt(t, i), top>>)
  /\ UNCHANGED <<nodes, root, first, last, strategy, ref, pending>>

\* variant: after a double step f is owed to the former parent first
SplayStepParentFirst ==
  /\ op.name = "splay_steps" /\ op.status = "running" /\ pending = <<>>
  /\ \E n \in {op.ret[1]} : \E top \in {op.ret[2]} :
       IF nodes[n].parent # top
       THEN /\ IF nodes[nodes[n].parent].parent # top
               THEN \E r \in {splay_2(nodes, n)} :
                      nodes' = r.nodes /\ pending' = <<r.p, r.pp>>
               ELSE \E r \in {splay_1(nodes, n)} :
                      nodes' = r.nodes /\ pending' = <<r.p>>
            /\ UNCHANGED op
       ELSE /\ pending' = <<n>>
            /\ SetOp("splay_steps", "last", op.ret)
            /\ UNCHANGED nodes
  /\ UNCHANGED <<root, first, last, strategy, ref>>

\* one turn of `while (parent != top)`: splay_2 owes f(pp); f(p), splay_1
\* owes f(p); after the loop f(this) is owed
SplayStep ==
  /\ op.name = "splay_steps" /\ op.status = "running" /\ pending = <<>>
  /\ \E n \in {op.ret[1]} : \E top \in {op.ret[2]} :
       IF nodes[n].parent # top
       THEN /\ IF nodes[nodes[n].parent].parent # top
               THEN \E r \in {splay_2(nodes, n)} :
                      nodes' = r.nodes /\ pending' = <<r.pp, r.p>>
               ELSE \E r \in {splay_1(nodes, n)} :
                      nodes' = r.nodes /\ pending' = <<r.p>>
            /\ UNCHANGED op
       ELSE /\ pending' = <<n>>
            /\ SetOp("splay_steps", "last", op.ret)
            /\ UNCHANGED nodes
  /\ UNCHANGED <<root, first, last, strategy, ref>>

\* back in the handle: if (!top) root = n
SplayEnd(t) ==
  /\ op.name = "splay_steps" /\ op.status = "last" /\ pending = <<>>
  /\ root' = [root EXCEPT ![t] = IF op.ret[2] = Null THEN op.ret[1] ELSE @]
  /\ SetOp("splay_steps", "ok", op.ret)
  /\ UNCHANGED <<nodes, first, last, strategy, ref, pending>>

SplayNext ==
  \/ \E k \in 0..MaxNodes : ~Splaying /\ TreeEmplaceAtIndex(1, k)
  \/ \E i \in 0..MaxNodes, top \in 0..MaxNodes : SplayBegin(1, i, top)
  \/ SplayStep
  \/ UpdateSize
  \/ SplayEnd(1)

SpecSplay == Init /\ [][SplayNext]_vars

\* ---- two handles: the const& overloads of link_subtree ----
\* the nodes of handle 2 are also nodes of handle 1
Shared == root[2] # Null /\ is_under(nodes, root[2], root[1])

\* link_subtree(pos, This const& other) with pos the insert position of
\* ordinal k: other keeps its root, first and last
TreeLinkSubtreeConst(t, k, o) ==
  /\ Alive /\ strategy = Bare /\ ~Shared
  /\ o # t /\ root[o] # Null
  /\ k \in 0..Len(Inorder(t))
  /\ \E T1 \in {tree_link_subtree(
                  TreeOf(t), tree_get_insert_position_for_index(TreeOf(t), k),
                  TreeOf(o), TRUE)} :
       /\ Commit(t, T1)
       /\ ref' = [ref EXCEPT ![t] = InsertSeqAt(@, k, ref[o])]
       /\ SetOp("link_subtree const&", "ok", <<k, Len(Inorder(o))>>)
  /\ UNCHANGED <<strategy, pending>>

\* link_subtree_at_index(index, This const& other)
TreeLinkSubtreeAtIndexConst(t, k, o) ==
  /\ Alive /\ strategy = Bare /\ ~Shared
  /\ o # t /\ root[o] # Null
  /\ k \in 0..Len(Inorder(t))
  /\ \E T1 \in {tree_link_subtree_at_index(TreeOf(t), k, TreeOf(o), TRUE)} :
       /\ Commit(t, T1)
       /\ ref' = [ref EXCEPT ![t] = InsertSeqAt(@, k, ref[o])]
       /\ SetOp("link_subtree_at_index const&", "ok", <<k, Len(Inorder(o))>>)
  /\ UNCHANGED <<strategy, pending>>

\* other.clear() by the caller of a const& overload
TreeClear(o) ==
  /\ Alive /\ strategy = Bare /\ Shared
  /\ Commit(o, tree_clear(TreeOf(o)))
  /\ ref' = [ref EXCEPT ![o] = <<>>]
  /\ SetOp("clear", "ok", <<>>)
  /\ UNCHANGED <<strategy, pending>>

LinkNext ==
  \/ \E k \in 0..MaxNodes : TreeEmplaceAtIndex(1, k)
  \/ \E i \in 0..MaxNodes : TreeUnlinkSubtree(1, i, 2)
  \/ \E k \in 0..MaxNodes : ~Shared /\ TreeLinkSubtree(1, k, 2)
  \/ \E k \in 0..MaxNodes : ~Shared /\ TreeLinkSubtreeAtIndex(1, k, 2)
  \/ \E k \in 0..MaxNodes : TreeLinkSubtreeConst(1, k, 2)
  \/ \E k \in 0..MaxNodes : TreeLinkSubtreeAtIndexConst(1, k, 2)
  \/ TreeClear(2)

SpecLink == Init /\ [][LinkNext]_vars

\* ---- two containers: copy and move ----
\* root = c; first = root->find_first_node(); last = root->find_last_node(),
\* for the root c.n that clone_nodes returned with the heap c.nodes
Rooted(c) ==
  MkTree(c.nodes, c.n, find_first_node(c.nodes, c.n),
         find_last_node(c.nodes, c.n))

\* OrderedBinaryTree::clone_from<destroy_nodes>(n)
tree_clone_from(T, n, destroy) ==
  Rooted(clone_nodes((IF destroy THEN destroy_all_nodes(T) ELSE T).nodes, n))

CopyKinds == {"copy_construct", "copy_assign"}
MoveKinds == {"move_construct", "move_assign"}

\* variant: the destination takes the source's nodes (the handle's copy)
CopiedFromShared(D, n, kind) ==
  IF n = Null THEN D ELSE Rooted([nodes |-> D.nodes, n |-> n])

\* the destination after ManagedTree(This const&) / operator=(This const&)
\* with the source root n, D being the destination once operator= cleared it
CopiedFrom(D, n, kind) ==
  IF n = Null THEN D ELSE tree_clone_from(D, n, kind = "copy_assign")

\* Tree d{s}, d = s, Tree d{std::move(s)}, d = std::move(s) for two distinct
\* containers d and s; a constructed d holds nothing before; copies are
\* taken of containers of fewer than MaxNodes elements
Transfer(kind, d, s) ==
  /\ Alive /\ strategy \in Strategies
  /\ d # s
  /\ kind \in {"copy_construct", "move_construct"} => root[d] = Null
  /\ kind \in CopyKinds => Len(Inorder(s)) < MaxNodes
  /\ \E D \in {IF kind \in {"copy_assign", "move_assign"}
               THEN destroy_all_nodes(TreeOf(d)) ELSE TreeOf(d)} :
       IF kind \in CopyKinds
       THEN \E T1 \in {CopiedFrom(D, root[s], kind)} :
              /\ Commit(d, T1)
              /\ ref' = [ref EXCEPT ![d] = ref[s]]
       ELSE /\ nodes' = D.nodes
            /\ root' = [root EXCEPT ![d] = root[s], ![s] = Null]
            /\ first' = [first EXCEPT ![d] = first[s], ![s] = Null]
            /\ last' = [last EXCEPT ![d] = last[s], ![s] = Null]
            /\ ref' = [ref EXCEPT ![d] = ref[s], ![s] = <<>>]
  /\ SetOp(kind, "ok", <<d, s>>)
  /\ UNCHANGED <<strategy, pending>>

\* container 1 is filled by insert and emptied by clear while it is the only
\* one; container 2 is constructed or assigned from it, and back
CopyNext ==
  \/ \E i \in 0..MaxNodes : Insert(1, i)
  \/ Clear(1)
  \/ \E kind \in CopyKinds \cup MoveKinds, d \in Trees, s \in Trees :
       Transfer(kind, d, s)

SpecCopy == Init /\ [][CopyNext]_vars

\* ---- two containers: swap and assignment to itself ----
\* variant: d takes the handle of s, s keeps it
SwapTaking(d, s) ==
  /\ Alive /\ strategy \in Strategies
  /\ root' = [root EXCEPT ![d] = root[s]]
  /\ first' = [first EXCEPT ![d] = first[s]]
  /\ last' = [last EXCEPT ![d] = last[s]]
  /\ ref' = [ref EXCEPT ![d] = ref[s]]
  /\ SetOp("swap", "ok", <<d, s>>)
  /\ UNCHANGED <<nodes, strategy, pending>>

\* d.swap(s): tree_.swap(other.tree_) exchanges root, first and last
Swap(d, s) ==
  /\ Alive /\ strategy \in Strategies
  /\ root' = [root EXCEPT ![d] = root[s], ![s] = root[d]]
  /\ first' = [first EXCEPT ![d] = first[s], ![s] = first[d]]
  /\ last' = [last EXCEPT ![d] = last[s], ![s] = last[d]]
  /\ ref' = [ref EXCEPT ![d] = ref[s], ![s] = ref[d]]
  /\ SetOp("swap", "ok", <<d, s>>)
  /\ UNCHANGED <<nodes, strategy, pending>>

\* d = d and d = std::move(d): `other` is *this, so other.tree_ is read after
\* clear() has emptied it; the list follows the container
SelfAssign(kind, d) ==
  /\ Alive /\ strategy \in Strategies
  /\ kind \in {"copy_assign", "move_assign"}
  /\ \E D \in {destroy_all_nodes(TreeOf(d))} :
       Commit(d, IF kind = "copy_assign" THEN CopiedFrom(D, D.root, kind)
                 ELSE tree_clear(MkTree(D.nodes, D.root, D.first, D.last)))
  /\ ref' = [ref EXCEPT ![d] = <<>>]
  /\ SetOp(kind, "ok", <<d, d>>)
  /\ UNCHANGED <<strategy, pending>>

OwnNext ==
  \/ CopyNext
  \/ \E d \in Trees, s \in Trees : Swap(d, s)
  \/ \E how \in JoinKinds, i \in 0..MaxNodes : Join(1, how, i, 2)
  \/ \E kind \in {"copy_assign", "move_assign"}, d \in Trees :
       SelfAssign(kind, d)

SpecOwn == Init /\ [][OwnNext]_vars

\* ============================== iterators ===============================
\* OrderedBinaryTreeIterator<Tree, constant, reverse>: the pair {tree_, node_}
\* (a tree handle and a node, Null past the end); the direction is a template
\* argument, here the argument `reverse` of every operator.
Iterator(t, n) == [tree |-> t, node |-> n]

\* ASSERT(x) throws std::logic_error when x is false, unless NDEBUG compiles
\* the test out
Builds == {"debug", "NDEBUG"}

Returned(v) == {[status |-> "ok", val |-> <<v>>]}

Thrown == {[status |-> "assert", val |-> <<>>]}

\* a read through the null node_: a trap, or a result made of whatever the
\* read found
Undefined(values) ==
  {[status |-> "crashed", val |-> <<>>]}
    \cup {[status |-> "ok", val |-> <<v>>] : v \in values}

\* variant: the test is compiled out of every build
CheckedNever(build, x, outcomes) == outcomes

Checked(build, x, outcomes) ==
  IF x \/ build = "NDEBUG" THEN outcomes ELSE Thrown

begin_node(it, reverse) ==
  IF reverse THEN last[it.tree] ELSE first[it.tree]

before_end_node(it, reverse) ==
  IF reverse THEN first[it.tree] ELSE last[it.tree]

next_node(n, reverse) ==
  IF reverse THEN find_prev_node(nodes, n) ELSE find_next_node(nodes, n)

next_node_steps(n, steps, reverse) ==
  IF reverse THEN find_prev_node_steps(nodes, n, steps)
  ELSE find_next_node_steps(nodes, n, steps)

prev_node(n, reverse) ==
  IF reverse THEN find_next_node(nodes, n) ELSE find_prev_node(nodes, n)

prev_node_steps(n, steps, reverse) ==
  IF reverse THEN find_next_node_steps(nodes, n, steps)
  ELSE find_prev_node_steps(nodes, n, steps)

\* variant: a reverse iterator reports its node's ordinal from the front
iterator_get_index_forward(it, reverse) ==
  IF it.node # Null THEN get_index(nodes, it.node)
  ELSE tree_size(TreeOf(it.tree))

iterator_get_index(it, reverse) ==
  IF reverse
  THEN IF it.node # Null
       THEN tree_size(TreeOf(it.tree)) - get_index(nodes, it.node) - 1
       ELSE tree_size(TreeOf(it.tree))
  ELSE IF it.node # Null THEN get_index(nodes, it.node)
       ELSE tree_size(TreeOf(it.tree))

\* variant: the node itself is handed to the iterator of the other direction
make_reverse_iterator_same_node(it, reverse) ==
  Iterator(it.tree, IF it.node # Null THEN it.node
                    ELSE before_end_node(it, reverse))

\* the result is an iterator of the other direction
make_reverse_iterator(it, reverse) ==
  Iterator(it.tree, IF it.node # Null THEN prev_node(it.node, reverse)
                    ELSE before_end_node(it, reverse))

operator_eq(a, b, build) ==
  Checked(build, a.tree = b.tree, Returned(a.node = b.node))

operator_deref(a, build) ==
  Checked(build, a.node # Null,
          IF a.node # Null THEN Returned(nodes[a.node].data)
          ELSE Undefined(0..MaxNodes))

operator_increment(a, reverse, build) ==
  Checked(build, a.node # Null,
          IF a.node # Null THEN Returned(next_node(a.node, reverse))
          ELSE Undefined(DOMAIN nodes \cup {Null}))

\* the steps > 0 branch of += and the steps < 0 branch of -=
Forward(a, steps, reverse, build) ==
  Checked(build, a.node # Null,
          IF a.node # Null THEN Returned(next_node_steps(a.node, steps, reverse))
          ELSE Undefined(DOMAIN nodes \cup {Null}))

\* variant: from the end, the step onto the last node is not counted
BackwardUncounted(a, steps, reverse, build) ==
  IF a.node # Null
  THEN Checked(build, prev_node_steps(a.node, steps, reverse) # Null,
               Returned(prev_node_steps(a.node, steps, reverse)))
  ELSE IF before_end_node(a, reverse) # Null
  THEN Checked(build,
               prev_node_steps(before_end_node(a, reverse), steps, reverse)
                 # Null,
               Returned(prev_node_steps(before_end_node(a, reverse), steps,
                                        reverse)))
  ELSE Checked(build, FALSE, Undefined(DOMAIN nodes \cup {Null}))

\* the steps < 0 branch of += and the steps > 0 branch of -=; find_prev_node
\* on the absent node returns it for 0 steps and reads through it otherwise
Backward(a, steps, reverse, build) ==
  IF a.node # Null
  THEN Checked(build, prev_node_steps(a.node, steps, reverse) # Null,
               Returned(prev_node_steps(a.node, steps, reverse)))
  ELSE IF before_end_node(a, reverse) # Null
  THEN Checked(build,
               prev_node_steps(before_end_node(a, reverse), steps - 1, reverse)
                 # Null,
               Returned(prev_node_steps(before_end_node(a, reverse), steps - 1,
                                        reverse)))
  ELSE Checked(build, FALSE,
               IF steps = 1 THEN Returned(Null)
               ELSE Undefined(DOMAIN nodes \cup {Null}))

operator_plus(a, steps, reverse, build) ==
  IF steps > 0 THEN Forward(a, steps, reverse, build)
  ELSE IF steps < 0 THEN Backward(a, -steps, reverse, build)
  ELSE Returned(a.node)

operator_decrement(a, reverse, build) ==
  Checked(build,
          (IF a.node # Null THEN prev_node(a.node, reverse)
           ELSE before_end_node(a, reverse)) # Null,
          Returned(IF a.node # Null THEN prev_node(a.node, reverse)
                   ELSE before_end_node(a, reverse)))

operator_minus(a, steps, reverse, build) ==
  IF steps > 0 THEN Backward(a, steps, reverse, build)
  ELSE IF steps < 0 THEN Forward(a, -steps, reverse, build)
  ELSE Returned(a.node)

operator_difference(a, b, reverse, build) ==
  Checked(build, a.tree = b.tree,
          Returned(iterator_get_index(a, reverse)
                     - iterator_get_index(b, reverse)))

Relations == {"<", ">", "<=", ">="}

operator_compare(rel, a, b, reverse, build) ==
  Checked(build, a.tree = b.tree,
          Returned(IF rel = "<"
                   THEN iterator_get_index(a, reverse)
                          < iterator_get_index(b, reverse)
                   ELSE IF rel = ">"
                   THEN iterator_get_index(a, reverse)
                          > iterator_get_index(b, reverse)
                   ELSE IF rel = "<="
                   THEN iterator_get_index(a, reverse)
                          <= iterator_get_index(b, reverse)
                   ELSE iterator_get_index(a, reverse)
                          >= iterator_get_index(b, reverse)))

\* the iterator at ordinal i in its direction; i = size is the end
IteratorAt(t, i, reverse) ==
  Iterator(t, IF i >= Len(Inorder(t)) THEN Null
              ELSE IF reverse THEN Inorder(t)[Len(Inorder(t)) - i]
              ELSE Inorder(t)[i + 1])

\* ---- sanity of the variables ----
TypeOK ==
  /\ \A n \in DOMAIN nodes :
       /\ nodes[n].left_child \in DOMAIN nodes \cup {Null}
       /\ nodes[n].right_child \in DOMAIN nodes \cup {Null}
       /\ nodes[n].parent \in DOMAIN nodes \cup {Null}
       /\ nodes[n].size \in Nat
  /\ \A t \in Trees : root[t] \in DOMAIN nodes \cup {Null}

\* ================================ claims ================================
\* the facade's observers, read off the tree as the code reads them
size(t) == tree_size(TreeOf(t))

front(t) == nodes[first[t]].data

back(t) == nodes[last[t]].data

\* C1: after every sequence of facade operations on an initially empty
\* container, under both strategies, the in-order traversal of the tree, and
\* with it size(), front() and back(), equals the reference double-ended list
\* obtained by applying the same operations.
C1_Refinement ==
  \A t \in Facade :
    /\ InorderData(t) = ref[t]
    /\ pending = <<>> => size(t) = Len(ref[t])
    /\ ref[t] # <<>> =>
         /\ first[t] # Null /\ front(t) = Head(ref[t])
         /\ last[t] # Null /\ back(t) = ref[t][Len(ref[t])]

\* the refinement holds in every run in which the baseline push on the empty
\* container did not trap
RefinementUnlessTrapped == op.status # "crashed" => C1_Refinement

\* C2: whenever no size refresh is owed by the caller of a rotation, every
\* node reachable from the root of a tree satisfies
\* size = 1 + size(left) + size(right), an absent child counting 0.
C2_SizeInvariant ==
  pending = <<>> =>
    \A t \in Trees : \A i \in 1..Len(Inorder(t)) :
      LET n == Inorder(t)[i]
      IN nodes[n].size = 1 + get_size(nodes, nodes[n].left_child)
                           + get_size(nodes, nodes[n].right_child)

\* a detached subtree was linked back below a chain of ancestors, all of
\* which had their sizes refreshed
C2_Witness ==
  /\ op.name = "link_subtree" /\ pending = <<>>
  /\ Len(Inorder(1)) = MaxNodes
  /\ \E n \in DOMAIN nodes : nodes[n].size = MaxNodes - 1

\* the node reached from n by following at most k parent links
RECURSIVE Climb(_, _, _)
Climb(h, n, k) ==
  IF k = 0 \/ h[n].parent \notin DOMAIN h THEN n
  ELSE Climb(h, h[n].parent, k - 1)

TopOf(n) == Climb(nodes, n, Cardinality(DOMAIN nodes))

C4_EndpointInvariant ==
  \A t \in Trees :
    IF root[t] = Null THEN first[t] = Null /\ last[t] = Null
    ELSE /\ first[t] = find_first_node(nodes, root[t])
         /\ last[t] = find_last_node(nodes, root[t])

\* erase has removed the sole element
C4_Witness ==
  /\ op.name = "tree_erase" /\ op.ret = <<Null, Null>>
  /\ root[1] = Null /\ first[1] = Null /\ last[1] = Null

\* C5: in a tree with correct sizes, for every k in [0, size) the node
\* returned by find_node_at_index(k) is the k-th node of the in-order
\* traversal and get_index() of that node returns k.
C5_RankRoundTrip ==
  pending = <<>> =>
    \A t \in Trees : \A k \in 0..(Len(Inorder(t)) - 1) :
      LET n == tree_find_node_at_index(TreeOf(t), k)
      IN n = Inorder(t)[k + 1] /\ get_index(nodes, n) = k

\* a tree of four nodes whose root has both children: the descent for the
\* last rank goes right and get_index of the node it finds climbs back
C5_Witness ==
  /\ pending = <<>> /\ Len(Inorder(1)) = MaxNodes
  /\ nodes[root[1]].left_child # Null /\ nodes[root[1]].right_child # Null
  /\ tree_find_node_at_index(TreeOf(1), MaxNodes - 1) # root[1]
  /\ get_index(nodes, tree_find_node_at_index(TreeOf(1), MaxNodes - 1))
       = MaxNodes - 1

\* C6: no operation changes the data stored in a node that survives it: a
\* handle to a node that was not erased denotes the same value before and
\* after every step.
C6_ValueStability ==
  [][\A n \in DOMAIN nodes \cap DOMAIN nodes' :
       nodes'[n].data = nodes[n].data]_vars

\* erase has removed a node with two children: the successor that replaced
\* it sits above the node from which sizes were refreshed
C6_Witness ==
  /\ op.name = "tree_erase"
  /\ op.ret[1] # Null /\ op.ret[2] # Null
  /\ is_under(nodes, op.ret[2], op.ret[1])

\* C7: an operation whose allocation fails leaves the container in the state
\* it had before the operation began (sequence and structure).
C7_FailureAtomicity ==
  [][op'.status = "bad_alloc" => UNCHANGED <<nodes, root, first, last>>]_vars

\* C8: at(k) with k >= size signals out_of_range and leaves the container
\* unchanged; at(k) with k < size returns the element at ordinal k, the one
\* operator[](k) returns, and keeps the sequence.
C8_At ==
  [][op'.name = "at" =>
       LET k == op'.ret[1]
       IN IF k >= Len(Inorder(1))
          THEN /\ op'.status = "out_of_range"
               /\ UNCHANGED <<nodes, root, first, last>>
          ELSE /\ op'.status = "ok"
               /\ op'.ret[2] = InorderData(1)[k + 1]
               /\ op'.ret[2] =
                    nodes[impl_find_node_at_index(TreeOf(1), k).ret].data
               /\ InorderData(1)' = InorderData(1)]_vars

\* at(size) was called on a container of three elements
C8_Witness ==
  /\ op.name = "at" /\ op.status = "out_of_range"
  /\ op.ret[1] = Len(Inorder(1)) /\ Len(Inorder(1)) = MaxNodes - 1

\* C9 as claimed: the ladder yields d, f, h, e, b, a, g, c, i, j.
C9_LadderAsClaimed ==
  LadderDone => InorderData(1) = <<4, 6, 8, 5, 2, 1, 7, 3, 9, 10>>

\* C9: the ladder (0,a), (0,b), (0,c), (0,d), (1,e), (1,f), (3,g), (3,h),
\* (8,i), (9,j) yields the in-order sequence d, f, e, h, g, c, b, a, i, j.
C9_Ladder ==
  LadderDone => InorderData(1) = <<4, 6, 5, 8, 7, 3, 2, 1, 9, 10>>

\* the tenth insertion (9, j) has been made
C9_Witness ==
  /\ LadderDone /\ op.name = "emplace_at_index"
  /\ op.ret[1] = 9 /\ Len(Inorder(1)) = Len(test_insertions_1)

\* C10: emplace_at_index(k) on a tree of size s, k in [0, s], attaches the new
\* node at the empty child slot get_insert_position_for_index(k) names, gives
\* it ordinal k, and keeps the s existing nodes in their relative order.
C10_PositionalInsert ==
  [][op'.name = "emplace_at_index" =>
       LET k == op'.ret[1]
           n == op'.ret[2]
           pos == tree_get_insert_position_for_index(TreeOf(1), k)
       IN /\ n \notin DOMAIN nodes
          /\ IF pos.node = Null THEN root[1] = Null /\ root'[1] = n
             ELSE /\ (IF pos.left_child THEN nodes[pos.node].left_child
                      ELSE nodes[pos.node].right_child) = Null
                  /\ (IF pos.left_child THEN nodes'[pos.node].left_child
                      ELSE nodes'[pos.node].right_child) = n
                  /\ nodes'[n].parent = pos.node
          /\ Inorder(1)'[k + 1] = n
          /\ get_index(nodes', n) = k
          /\ RemoveAt(Inorder(1)', k) = Inorder(1)]_vars

\* a node was inserted strictly inside a tree of three
C10_Witness ==
  /\ op.name = "emplace_at_index" /\ Len(Inorder(1)) = MaxNodes
  /\ op.ret[1] \in 1..(MaxNodes - 2)

\* C11: push_front / push_back on an empty container, under both strategies,
\* dereference no absent handle and leave a one-element container whose root,
\* first and last all designate the new node.
C11_PushOnEmpty ==
  [][(op'.name \in {"push_front", "push_back"} /\ root[1] = Null) =>
       /\ op'.status = "ok"
       /\ root'[1] # Null
       /\ first'[1] = root'[1] /\ last'[1] = root'[1]
       /\ Len(Inorder(1)') = 1]_vars

\* C12: insert(it, v) / emplace(it, ...) / insert(it, first, last) of n >= 1
\* values before the iterator at ordinal i places the values, in their given
\* order, in new nodes at ordinals i .. i+n-1, keeps the former elements in
\* their relative order, and returns the node of the first inserted value,
\* the one get_iterator_at_index(i) designates afterwards; under both
\* strategies.
C12_InsertBefore ==
  [][(op'.name \in {"insert", "insert_range"} /\ op'.status = "ok"
        /\ Allocated' > Allocated) =>
       \E old \in {Inorder(1)} : \E new \in {Inorder(1)'} :
       \E vs \in {NewValues(Len(new) - Len(old))} :
       \E i \in {op'.ret[1]} :
         /\ \A m \in 1..Len(vs) :
              /\ new[i + m] \notin DOMAIN nodes
              /\ nodes'[new[i + m]].data = vs[m]
         /\ RemoveRange(new, i, i + Len(vs)) = old
         /\ op'.ret[2] = new[i + 1]
         /\ op'.ret[2] = impl_find_node_at_index(
                            MkTree(nodes', root'[1], first'[1], last'[1]),
                            i).ret]_vars

\* the splay strategy has inserted two values before the second of two
\* elements
C12_Witness ==
  /\ op.name = "insert_range" /\ strategy = "splay"
  /\ Len(Inorder(1)) = MaxNodes
  /\ op.ret = <<1, Inorder(1)[2]>>
  /\ nodes[Inorder(1)[3]].data = nodes[op.ret[2]].data + 1

\* C13: insert(it, first, last) with an empty range returns the position
\* `it` it was given (the node at that ordinal, end for the size) and does
\* not change the container, under both strategies.
C13_EmptyRange ==
  [][(op'.name = "insert_range" /\ op'.status = "ok"
        /\ Allocated' = Allocated) =>
       /\ UNCHANGED <<nodes, root, first, last>>
       /\ op'.ret[2] = NodeAt(1, op'.ret[1])]_vars

\* C14: erase(it) with `it` at ordinal i < size removes exactly that element
\* (its node is destroyed, every other node keeps its place and its value)
\* and returns the position of the element that followed it: the same node
\* that was at ordinal i + 1 before the erase, end when the erased element
\* was the last; under both strategies.
C14_EraseReturnsNext ==
  [][(op'.name = "erase" /\ op'.status = "ok") =>
       \E i \in {op'.ret[1]} : \E old \in {Inorder(1)} :
         /\ Inorder(1)' = RemoveAt(old, i)
         /\ DOMAIN nodes' = DOMAIN nodes \ {old[i + 1]}
         /\ \A n \in DOMAIN nodes' : nodes'[n].data = nodes[n].data
         /\ op'.ret[2] = NodeAt(1, i + 1)
         /\ op'.ret[2] = IF i + 1 = Len(old) THEN Null
                         ELSE Inorder(1)'[i + 1]]_vars

\* an inner element was erased and its successor, not the root, returned
C14_Witness ==
  /\ op.name = "erase" /\ op.status = "ok"
  /\ op.ret[1] = 1 /\ Len(Inorder(1)) = MaxNodes - 1
  /\ op.ret[2] = Inorder(1)[2]
  /\ op.ret[2] # root[1]

\* C15: erase(first, last) with first at ordinal i and last at ordinal j,
\* i <= j <= size, removes exactly the elements at ordinals [i, j) (their
\* nodes are destroyed), keeps the others in order with their values, and
\* returns the position `last`, in each routing case (first is or is not
\* begin, last is or is not end); with first = last nothing is erased; under
\* both strategies.
C15_EraseRange ==
  [][(op'.name = "erase_range" /\ op'.status = "ok") =>
       \E i \in {op'.ret[1]} : \E j \in {op'.ret[2]} :
       \E old \in {Inorder(1)} :
         /\ i <= j /\ j <= Len(old)
         /\ Inorder(1)' = RemoveRange(old, i, j)
         /\ DOMAIN nodes' = DOMAIN nodes \ {old[m] : m \in (i + 1)..j}
         /\ \A n \in DOMAIN nodes' : nodes'[n].data = nodes[n].data
         /\ op'.ret[3] = NodeAt(1, j)
         /\ (i = j) => (Inorder(1)' = old /\ DOMAIN nodes' = DOMAIN nodes)]_vars

\* the splay strategy erased the two inner elements of a full container:
\* first was not begin, last was not end
C15_Witness ==
  /\ op.name = "erase_range" /\ op.status = "ok" /\ strategy = "splay"
  /\ Len(Inorder(1)) = MaxNodes - 2
  /\ op.ret = <<1, MaxNodes - 1, Inorder(1)[2]>>

\* erase(it) applied `count` times, each time to the position the previous
\* erase returned, as the strategy in use performs it
RECURSIVE impl_erase_node_times(_, _, _)
impl_erase_node_times(T, node, count) ==
  IF count = 0 THEN T
  ELSE \* R is used for its tree and for its returned position
       LET Again(R) == impl_erase_node_times(R.tree, R.ret, count - 1)
       IN Again(IF strategy = "splay" THEN splay_erase_node(T, node)
                ELSE basic_erase_node(T, node))

\* C16: one range erase of [i, j), i <= j <= size, produces the same sequence
\* (the same nodes in the same order, holding the same values) as erasing the
\* element at ordinal i (j - i) times in succession.
C16_RangeMatchesPoint ==
  [][(op'.name = "erase_range" /\ op'.status = "ok") =>
       \E P \in {impl_erase_node_times(TreeOf(1), NodeAt(1, op'.ret[1]),
                                       op'.ret[2] - op'.ret[1])} :
         /\ traverse_inorder(P.nodes, P.root) = Inorder(1)'
         /\ DataOf(P) = InorderData(1)'
         /\ DOMAIN P.nodes = DOMAIN nodes']_vars

\* the baseline strategy erased the first two elements of a full container
C16_Witness ==
  /\ op.name = "erase_range" /\ op.status = "ok" /\ strategy = "basic"
  /\ Len(Inorder(1)) = MaxNodes - 2
  /\ op.ret = <<0, 2, Inorder(1)[1]>>

\* C17: join(it, other) with `it` at ordinal i and a non-empty other moves
\* all of other's nodes into this container immediately before `it`: the
\* sequence becomes old_this[0..i) ++ old_other ++ old_this[i..), other is
\* empty, no node is allocated or destroyed, no value changes, and the
\* returned position is the node that was other's first element; join_front
\* and join_back give the tree that join(begin(), other) and
\* join(end(), other) give.
C17_Join ==
  [][(op'.name \in JoinKinds /\ op'.ret[2] > 0) =>
       \E i \in {op'.ret[1]} : \E A \in {Inorder(1)} : \E B \in {Inorder(2)} :
         /\ Len(B) = op'.ret[2]
         /\ Inorder(1)' = SubSeq(A, 1, i) \o B \o SubSeq(A, i + 1, Len(A))
         /\ root'[2] = Null /\ first'[2] = Null /\ last'[2] = Null
         /\ DOMAIN nodes' = DOMAIN nodes
         /\ \A n \in DOMAIN nodes : nodes'[n].data = nodes[n].data
         /\ op'.ret[3] = B[1]
         /\ op'.name = "join_front" => i = 0
         /\ op'.name = "join_back" => i = Len(A)
         /\ MkTree(nodes', root'[1], first'[1], last'[1]) =
              impl_join(TreeOf(1),
                        JoinPosition(TreeOf(1), "join", NodeAt(1, i)),
                        TreeOf(2))]_vars

\* two elements were spliced into the middle of a two-element container
C17_Witness ==
  /\ op.name = "join" /\ op.ret[1] = 1 /\ op.ret[2] = MaxBulk
  /\ Len(Inorder(1)) = MaxBulk + 2
  /\ op.ret[3] = Inorder(1)[2]
  /\ root[2] = Null

\* C18: joining an empty tree is a no-op: join(it, other), join_front(other)
\* and join_back(other) with other empty leave both containers unchanged and
\* return the given position: `it`, begin() and end() respectively.
C18_JoinEmpty ==
  [][(op'.name \in JoinKinds /\ root[2] = Null) =>
       /\ UNCHANGED <<nodes, root, first, last>>
       /\ op'.ret[2] = 0
       /\ op'.ret[3] = IF op'.name = "join" THEN NodeAt(1, op'.ret[1])
                       ELSE IF op'.name = "join_front" THEN NodeAt(1, 0)
                       ELSE Null]_vars

\* join_front of an empty tree returned begin() of a container that has
\* several elements
C18_Witness ==
  /\ op.name = "join_front" /\ op.ret[2] = 0
  /\ Len(Inorder(1)) > 1
  /\ op.ret[3] = Inorder(1)[1]

\* C19: join reversibility: when a non-empty tree B has been linked into a
\* tree A at ordinal k, 0 < k <= size(A), by link_subtree_at_index(k, B),
\* unlink_subtree_at_index(k) on the result yields a detached tree whose
\* in-order sequence is B's and leaves a tree whose sequence is A's.
C19_JoinReversible ==
  [][(op'.name = "link_subtree_at_index" /\ op'.ret[1] > 0) =>
       \E J \in {MkTree(nodes', root'[1], first'[1], last'[1])} :
       \E n \in {tree_find_node_at_index(J, op'.ret[1])} :
       \E U \in {tree_unlink(J, n, TRUE).tree} :
         /\ traverse_inorder(U.nodes, n) = Inorder(2)
         /\ traverse_inorder(U.nodes, U.root) = Inorder(1)]_vars

\* the place of node x in the in-order sequence s, 0 for the absent node
PlaceIn(s, x) == IF x = Null THEN 0 ELSE IndexOf(s, x)

\* C20: clone independence: clone() leaves the source as it is and returns
\* a tree of freshly allocated nodes with the same shape, sizes and in-order
\* values as the source; afterwards a mutation of either tree (an insertion,
\* an erasure, a splay, the destruction of all nodes) leaves every node and
\* the root, first and last of the other tree unchanged.
C20_CloneIndependent ==
  [][/\ (op'.name = "clone") =>
          \E A \in {Inorder(1)} : \E C \in {Inorder(2)'} :
            /\ Len(C) = Len(A)
            /\ DOMAIN nodes' = DOMAIN nodes \cup SeqRange(C)
            /\ \A n \in DOMAIN nodes : nodes'[n] = nodes[n]
            /\ root'[1] = root[1] /\ first'[1] = first[1]
            /\ last'[1] = last[1]
            /\ \A m \in 1..Len(A) :
                 /\ C[m] \notin DOMAIN nodes
                 /\ nodes'[C[m]].data = nodes[A[m]].data
                 /\ nodes'[C[m]].size = nodes[A[m]].size
                 /\ PlaceIn(C, nodes'[C[m]].left_child)
                      = PlaceIn(A, nodes[A[m]].left_child)
                 /\ PlaceIn(C, nodes'[C[m]].right_child)
                      = PlaceIn(A, nodes[A[m]].right_child)
                 /\ PlaceIn(C, nodes'[C[m]].parent)
                      = PlaceIn(A, nodes[A[m]].parent)
            /\ root'[2] = op'.ret[1]
            /\ PlaceIn(C, root'[2]) = PlaceIn(A, root[1])
            /\ PlaceIn(C, first'[2]) = PlaceIn(A, first[1])
            /\ PlaceIn(C, last'[2]) = PlaceIn(A, last[1])
     /\ (op'.name \in MutationKinds) =>
          \E u \in {3 - op'.ret[1]} :
            /\ root'[u] = root[u] /\ first'[u] = first[u]
            /\ last'[u] = last[u]
            /\ \A n \in SeqRange(Inorder(u)) :
                 n \in DOMAIN nodes' /\ nodes'[n] = nodes[n]]_vars

\* the source was splayed into another shape while its three-node clone,
\* whose root has both children, holds copies of the same values
C20_Witness ==
  /\ op.name = "splay_in" /\ op.ret[1] = 1
  /\ Len(Inorder(1)) = 3 /\ Len(Inorder(2)) = 3
  /\ nodes[root[2]].left_child # Null /\ nodes[root[2]].right_child # Null
  /\ nodes[root[1]].left_child = Null
  /\ InorderData(1) = InorderData(2)
  /\ SeqRange(Inorder(1)) \cap SeqRange(Inorder(2)) = {}

\* C21: between two distinct containers, copy construction and copy
\* assignment give the destination the source's sequence of values in nodes
\* of its own and leave the source unchanged; move construction and move
\* assignment give the destination the source's former sequence and leave
\* the source empty (root, first and last absent); clear() leaves the
\* container empty.
C21_CopyMoveClear ==
  [][/\ (op'.name \in CopyKinds) =>
          \E d \in {op'.ret[1]} : \E s \in {op'.ret[2]} :
            /\ d # s
            /\ InorderData(d)' = InorderData(s)
            /\ Inorder(s)' = Inorder(s)
            /\ root'[s] = root[s] /\ first'[s] = first[s]
            /\ last'[s] = last[s]
            /\ \A n \in SeqRange(Inorder(s)) :
                 n \in DOMAIN nodes' /\ nodes'[n] = nodes[n]
            /\ SeqRange(Inorder(d)') \cap SeqRange(Inorder(s)) = {}
     /\ (op'.name \in MoveKinds) =>
          \E d \in {op'.ret[1]} : \E s \in {op'.ret[2]} :
            /\ d # s
            /\ InorderData(d)' = InorderData(s)
            /\ root'[s] = Null /\ first'[s] = Null /\ last'[s] = Null
     /\ (op'.name = "clear") =>
          /\ root'[1] = Null /\ first'[1] = Null /\ last'[1] = Null
          /\ Inorder(1)' = <<>>]_vars

\* a three-element container was copy-assigned to the other container
C21_Witness ==
  /\ op.name = "copy_assign" /\ op.ret = <<2, 1>>
  /\ Len(Inorder(1)) = MaxNodes - 1
  /\ InorderData(2) = InorderData(1)
  /\ SeqRange(Inorder(2)) \cap SeqRange(Inorder(1)) = {}

\* the step counts tried: up to one more than any tree holds
MaxSteps == MaxNodes + 1

\* C23: k-step navigation agrees with rank lookup: for the node n at ordinal
\* i of a tree with correct sizes and every step count s >= 0,
\* find_next_node(n, s) is the node at ordinal i + s, absent when
\* i + s >= size; find_prev_node(n, s) is the node at ordinal i - s, absent
\* when s > i; the one-step successor and predecessor are the s = 1 cases;
\* so the displacement size - i from ordinal i yields the end (absent) node.
C23_StepNavigation ==
  \A t \in Trees : \A i \in 0..(Len(Inorder(t)) - 1) :
    /\ \A s \in 0..MaxSteps :
         /\ find_next_node_steps(nodes, Inorder(t)[i + 1], s) = NodeAt(t, i + s)
         /\ find_prev_node_steps(nodes, Inorder(t)[i + 1], s)
              = IF s <= i THEN NodeAt(t, i - s) ELSE Null
    /\ find_next_node(nodes, Inorder(t)[i + 1])
         = find_next_node_steps(nodes, Inorder(t)[i + 1], 1)
    /\ find_prev_node(nodes, Inorder(t)[i + 1])
         = find_prev_node_steps(nodes, Inorder(t)[i + 1], 1)
    /\ find_next_node_steps(nodes, Inorder(t)[i + 1], Len(Inorder(t)) - i)
         = Null

\* a full tree whose root has both children and whose right subtree has a
\* left branch: the search from the first node climbs to the root, descends
\* to the right child and turns left
C23_Witness ==
  /\ Len(Inorder(1)) = MaxNodes /\ root[2] = Null
  /\ nodes[root[1]].left_child # Null /\ nodes[root[1]].right_child # Null
  /\ nodes[nodes[root[1]].right_child].left_child # Null
  /\ find_next_node_steps(nodes, first[1], 2) = Inorder(1)[3]
  /\ find_prev_node_steps(nodes, last[1], MaxNodes) = Null

Compared(rel, i, j) ==
  IF rel = "<" THEN i < j ELSE IF rel = ">" THEN i > j
  ELSE IF rel = "<=" THEN i <= j ELSE i >= j

\* C22: forward iterators it_i, it_j at the ordinals i, j in 0..size of one
\* tree (size being the end) satisfy it_i + (j - i) == it_j,
\* it_j - (j - i) == it_i and it_j - it_i = j - i as a signed difference;
\* it_i.get_index() = i; <, >, <=, >= order the iterators as i and j are
\* ordered, and it_i == it_j exactly when i = j; in either build.
C22_IteratorArithmetic ==
  \A t \in Trees, build \in Builds :
    \A i \in 0..Len(Inorder(t)), j \in 0..Len(Inorder(t)) :
      /\ operator_plus(IteratorAt(t, i, FALSE), j - i, FALSE, build)
           = Returned(IteratorAt(t, j, FALSE).node)
      /\ operator_minus(IteratorAt(t, j, FALSE), j - i, FALSE, build)
           = Returned(IteratorAt(t, i, FALSE).node)
      /\ operator_difference(IteratorAt(t, j, FALSE), IteratorAt(t, i, FALSE),
                             FALSE, build) = Returned(j - i)
      /\ iterator_get_index(IteratorAt(t, i, FALSE), FALSE) = i
      /\ \A rel \in Relations :
           operator_compare(rel, IteratorAt(t, i, FALSE),
                            IteratorAt(t, j, FALSE), FALSE, build)
             = Returned(Compared(rel, i, j))
      /\ operator_eq(IteratorAt(t, i, FALSE), IteratorAt(t, j, FALSE), build)
           = Returned(i = j)

\* a full tree with both subtrees of the root occupied: the end moved back by
\* size is begin, and begin - end = -size
C22_Witness ==
  /\ Len(Inorder(1)) = MaxNodes
  /\ nodes[root[1]].left_child # Null /\ nodes[root[1]].right_child # Null
  /\ operator_plus(Iterator(1, Null), -MaxNodes, FALSE, "debug")
       = Returned(first[1])
  /\ operator_minus(Iterator(1, Null), 2, FALSE, "NDEBUG")
       = Returned(Inorder(1)[MaxNodes - 1])
  /\ operator_difference(Iterator(1, first[1]), Iterator(1, Null), FALSE,
                         "debug") = Returned(-MaxNodes)

\* C24: for every forward or reverse iterator of a tree, the end of either
\* direction and the empty tree included, converting to the other direction
\* twice gives the iterator back; the reverse iterator made from a forward
\* iterator that is not begin designates the element just before it, begin
\* converts to rend and end converts to rbegin.
C24_ReverseRoundTrip ==
  \A t \in Trees : \A i \in 0..Len(Inorder(t)) :
    /\ \A reverse \in BOOLEAN :
         make_reverse_iterator(
             make_reverse_iterator(IteratorAt(t, i, reverse), reverse),
             ~reverse)
           = IteratorAt(t, i, reverse)
    /\ make_reverse_iterator(IteratorAt(t, i, FALSE), FALSE)
         = Iterator(t, IF i = 0 THEN Null ELSE Inorder(t)[i])
    /\ i = Len(Inorder(t)) =>
         make_reverse_iterator(IteratorAt(t, i, FALSE), FALSE)
           = Iterator(t, begin_node(Iterator(t, Null), TRUE))

\* a full tree with both subtrees of the root occupied, whose root converts
\* to its in-order predecessor and back
C24_Witness ==
  /\ Len(Inorder(1)) = MaxNodes
  /\ nodes[root[1]].left_child # Null /\ nodes[root[1]].right_child # Null
  /\ make_reverse_iterator(Iterator(1, root[1]), FALSE).node
       = find_last_node(nodes, nodes[root[1]].left_child)
  /\ make_reverse_iterator(
         make_reverse_iterator(Iterator(1, root[1]), FALSE), TRUE)
       = Iterator(1, root[1])
  /\ make_reverse_iterator(Iterator(1, first[1]), FALSE) = Iterator(1, Null)

\* the nodes visited by ++ from the iterator at n up to the end
RECURSIVE Visited(_, _, _)
Visited(n, reverse, fuel) ==
  IF n = Null \/ fuel = 0 THEN <<>>
  ELSE <<n>> \o Visited(
         (CHOOSE r \in operator_increment(Iterator(1, n), reverse, "debug") :
            TRUE).val[1],
         reverse, fuel - 1)

\* C25: going from rbegin to rend visits the elements in the reverse of the
\* in-order sequence (and from begin to end in the in-order sequence); the
\* reverse iterator at the node of ordinal k has get_index() = size - k - 1,
\* so the r-th element visited has get_index() = r, and rend has size; the
\* forward iterator at that node has get_index() = k, and end has size.
C25_ReverseIteration ==
  \A t \in Trees :
    /\ Visited(begin_node(Iterator(t, Null), TRUE), TRUE, MaxNodes + 1)
         = [r \in 1..Len(Inorder(t)) |-> Inorder(t)[Len(Inorder(t)) + 1 - r]]
    /\ Visited(begin_node(Iterator(t, Null), FALSE), FALSE, MaxNodes + 1)
         = Inorder(t)
    /\ \A k \in 0..(Len(Inorder(t)) - 1) :
         /\ iterator_get_index(Iterator(t, Inorder(t)[k + 1]), TRUE)
              = Len(Inorder(t)) - k - 1
         /\ iterator_get_index(Iterator(t, Inorder(t)[k + 1]), FALSE) = k
         /\ iterator_get_index(
                Iterator(t, Visited(begin_node(Iterator(t, Null), TRUE), TRUE,
                                    MaxNodes + 1)[k + 1]), TRUE) = k
    /\ iterator_get_index(Iterator(t, Null), TRUE) = Len(Inorder(t))
    /\ iterator_get_index(Iterator(t, Null), FALSE) = Len(Inorder(t))

\* a full tree with both subtrees of the root occupied: the reverse iteration
\* starts at the last node, and the first node is its last stop
C25_Witness ==
  /\ Len(Inorder(1)) = MaxNodes
  /\ nodes[root[1]].left_child # Null /\ nodes[root[1]].right_child # Null
  /\ Visited(last[1], TRUE, MaxNodes + 1)[MaxNodes] = first[1]
  /\ iterator_get_index(Iterator(1, first[1]), TRUE) = MaxNodes - 1
  /\ iterator_get_index(Iterator(1, root[1]), TRUE)
       = get_size(nodes, nodes[root[1]].right_child)

\* the uses of an iterator outside its contract, each ending in the thrown
\* assertion error: * and ++ at the end, -- at the beginning of the direction,
\* ==, -, < between iterators of different tree handles
ViolationsThrow(build) ==
  \A t \in Trees, reverse \in BOOLEAN :
    /\ operator_deref(Iterator(t, Null), build) = Thrown
    /\ operator_increment(Iterator(t, Null), reverse, build) = Thrown
    /\ operator_decrement(
           Iterator(t, begin_node(Iterator(t, Null), reverse)), reverse,
           build) = Thrown
    /\ \A u \in Trees \ {t} :
         \A i \in 0..Len(Inorder(t)), j \in 0..Len(Inorder(u)) :
           /\ operator_eq(IteratorAt(t, i, reverse), IteratorAt(u, j, reverse),
                          build) = Thrown
           /\ operator_difference(IteratorAt(t, i, reverse),
                                  IteratorAt(u, j, reverse), reverse, build)
                = Thrown
           /\ operator_compare("<", IteratorAt(t, i, reverse),
                               IteratorAt(u, j, reverse), reverse, build)
                = Thrown

\* ++ on the iterator at the last element of its direction gives the end
LastStepsToEnd(build) ==
  \A t \in Trees, reverse \in BOOLEAN :
    root[t] # Null =>
      operator_increment(
          Iterator(t, before_end_node(Iterator(t, Null), reverse)), reverse,
          build) = Returned(Null)

\* with the tests compiled out the same uses return: -- at the beginning gives
\* the end, ==, - and < across handles compare nodes and indices as if the
\* handles were one, * and ++ at the end read through the absent node
ViolationsReturn(build) ==
  \A t \in Trees, reverse \in BOOLEAN :
    /\ operator_deref(Iterator(t, Null), build) = Undefined(0..MaxNodes)
    /\ operator_increment(Iterator(t, Null), reverse, build)
         = Undefined(DOMAIN nodes \cup {Null})
    /\ operator_decrement(
           Iterator(t, begin_node(Iterator(t, Null), reverse)), reverse,
           build) = Returned(Null)
    /\ \A u \in Trees \ {t} :
         \A i \in 0..Len(Inorder(t)), j \in 0..Len(Inorder(u)) :
           /\ operator_eq(IteratorAt(t, i, reverse), IteratorAt(u, j, reverse),
                          build)
                = Returned(i = Len(Inorder(t)) /\ j = Len(Inorder(u)))
           /\ operator_difference(IteratorAt(t, i, reverse),
                                  IteratorAt(u, j, reverse), reverse, build)
                = Returned(i - j)

\* C26 as stated: in every build the uses of an iterator outside its contract
\* (* and ++ at the end, -- at the beginning of the direction, comparing or
\* subtracting iterators of different tree handles) end in an assertion
\* failure and give no result, and ++ at the last element gives the end.
C26_DetectedInEveryBuild ==
  \A build \in Builds : ViolationsThrow(build) /\ LastStepsToEnd(build)

\* C26 amended: the uses of an iterator outside its contract end in an
\* assertion failure in the builds that keep the tests (NDEBUG not defined);
\* with NDEBUG they return a result or read through the absent node; ++ at
\* the last element gives the end in either build.
C26_DetectedInDebugBuild ==
  /\ ViolationsThrow("debug")
  /\ ViolationsReturn("NDEBUG")
  /\ \A build \in Builds : LastStepsToEnd(build)

\* two non-empty handles: their begin iterators compared, the last element of
\* one stepped over, its begin stepped back
C26_Witness ==
  /\ root[1] # Null /\ root[2] # Null /\ first[1] # last[1]
  /\ operator_eq(Iterator(1, first[1]), Iterator(2, first[2]), "debug")
       = Thrown
  /\ operator_eq(Iterator(1, first[1]), Iterator(2, first[2]), "NDEBUG")
       = Returned(FALSE)
  /\ operator_decrement(Iterator(1, first[1]), FALSE, "debug") = Thrown
  /\ operator_decrement(Iterator(1, first[1]), FALSE, "NDEBUG")
       = Returned(Null)
  /\ operator_increment(Iterator(1, last[1]), FALSE, "debug") = Returned(Null)

\* C27: erase(n) on the handle removes exactly n and keeps the in-order
\* sequence of the other nodes, whether n has no left child, no right child
\* or both (its successor being its own right child or not); the first node
\* returned is the one now in n's former slot, absent exactly when n was a
\* leaf; the second is absent when n was the only node; the replacement is
\* the root of the handle when n was.
C27_NodeErase ==
  [][(op'.name = "tree_erase" /\ DOMAIN nodes' # DOMAIN nodes) =>
       \E n \in DOMAIN nodes \ DOMAIN nodes' :
         /\ DOMAIN nodes' = DOMAIN nodes \ {n}
         /\ Inorder(1)' = RemoveAt(Inorder(1), IndexOf(Inorder(1), n) - 1)
         /\ op'.ret[1] = IF nodes[n].parent = Null THEN root'[1]
                         ELSE IF nodes[nodes[n].parent].left_child = n
                         THEN nodes'[nodes[n].parent].left_child
                         ELSE nodes'[nodes[n].parent].right_child
         /\ op'.ret[1] # Null =>
              nodes'[op'.ret[1]].parent = nodes[n].parent
         /\ op'.ret[1] = Null
              <=> nodes[n].left_child = Null /\ nodes[n].right_child = Null
         /\ Len(Inorder(1)) = 1 => op'.ret[2] = Null
         /\ root[1] = n => root'[1] = op'.ret[1]]_vars

\* a node with two children whose successor was its own right child and had
\* a right child itself has been erased: the successor is both the
\* replacement and the node sizes were refreshed from
C27_Witness ==
  /\ op.name = "tree_erase" /\ Len(Inorder(1)) = MaxNodes - 1
  /\ op.ret[1] # Null /\ op.ret[1] = op.ret[2]
  /\ nodes[op.ret[1]].left_child # Null /\ nodes[op.ret[1]].right_child # Null

\* C28: n->erase() leaves the parent, left_child, right_child and size of n
\* itself as they were before the call, whether n has no left child, no right
\* child, or both children.
C28_ErasedNodeUntouched ==
  \A n \in DOMAIN nodes : \A update_sizes \in BOOLEAN :
    node_erase(nodes, n, update_sizes).nodes[n] = nodes[n]

\* x after a and b have changed places
Exchanged(x, a, b) == IF x = a THEN b ELSE IF x = b THEN a ELSE x

\* C29: swap_nodes(a, b) for two nodes of one tree at ordinals i and j (a = b,
\* a parent of b and b parent of a included) yields a well-formed tree whose
\* in-order sequence is the former one with the elements at i and j
\* exchanged, with every size equal to one plus the sizes of the children,
\* no data moved, and root, first and last moved to the other node whenever
\* they designated a or b; swapping the same pair again restores the tree.
C29_SwapNodes ==
  [][op'.name = "swap_nodes" =>
       \E a \in {op'.ret[1]} : \E b \in {op'.ret[2]} :
         /\ Inorder(1)' = SwapAt(Inorder(1), IndexOf(Inorder(1), a),
                                 IndexOf(Inorder(1), b))
         /\ DOMAIN nodes' = DOMAIN nodes
         /\ \A n \in DOMAIN nodes :
              /\ nodes'[n].data = nodes[n].data
              /\ nodes'[n].size = 1 + get_size(nodes', nodes'[n].left_child)
                                    + get_size(nodes', nodes'[n].right_child)
              /\ nodes'[n].left_child # Null =>
                   nodes'[nodes'[n].left_child].parent = n
              /\ nodes'[n].right_child # Null =>
                   nodes'[nodes'[n].right_child].parent = n
              /\ nodes'[Exchanged(n, a, b)].size = nodes[n].size
              /\ nodes'[Exchanged(n, a, b)].parent
                   = Exchanged(nodes[n].parent, a, b)
         /\ root'[1] = Exchanged(root[1], a, b)
         /\ nodes'[root'[1]].parent = Null
         /\ first'[1] = Exchanged(first[1], a, b)
         /\ last'[1] = Exchanged(last[1], a, b)
         /\ tree_swap_nodes(MkTree(nodes', root'[1], first'[1], last'[1]), a, b)
              = TreeOf(1)]_vars

\* the root and its left child, the first node of a full tree, have changed
\* places
C29_Witness ==
  /\ op.name = "swap_nodes" /\ Len(Inorder(1)) = MaxNodes
  /\ root[1] = op.ret[2] /\ first[1] = op.ret[1]
  /\ nodes[op.ret[2]].left_child = op.ret[1]
  /\ nodes[op.ret[2]].right_child # Null

\* every size is one plus the sizes of the children
SizesConsistent(h) ==
  \A m \in DOMAIN h :
    h[m].size = 1 + get_size(h, h[m].left_child) + get_size(h, h[m].right_child)

\* C30: rotate_left(n) on a node with a right child, and rotate_right(n) on a
\* node with a left child, keep the in-order sequence and the agreement of
\* child and parent links, make that child the parent of n in the slot n had
\* (the root of the handle when n was), and write no size; refreshing the
\* size of n and then of its new parent makes every size consistent again.
C30_Rotation ==
  [][(op'.name \in {"rotate_left", "rotate_right"} /\ pending = <<>>
        /\ pending' # <<>>) =>
       \E n \in {op'.ret[1]} :
       \E c \in {IF op'.name = "rotate_left" THEN nodes[n].right_child
                 ELSE nodes[n].left_child} :
         /\ c # Null
         /\ Inorder(1)' = Inorder(1)
         /\ \A m \in DOMAIN nodes' :
              /\ nodes'[m].left_child # Null =>
                   nodes'[nodes'[m].left_child].parent = m
              /\ nodes'[m].right_child # Null =>
                   nodes'[nodes'[m].right_child].parent = m
              /\ nodes'[m].size = nodes[m].size
              /\ nodes'[m].data = nodes[m].data
         /\ nodes'[n].parent = c
         /\ IF op'.name = "rotate_left" THEN nodes'[c].left_child = n
            ELSE nodes'[c].right_child = n
         /\ nodes'[c].parent = nodes[n].parent
         /\ nodes[n].parent # Null =>
              IF nodes[nodes[n].parent].left_child = n
              THEN nodes'[nodes[n].parent].left_child = c
              ELSE nodes'[nodes[n].parent].right_child = c
         /\ root'[1] = IF root[1] = n THEN c ELSE root[1]
         /\ first'[1] = first[1] /\ last'[1] = last[1]
         /\ pending' = <<n, c>>
         /\ SizesConsistent(update_size(update_size(nodes', n), c))]_vars

\* the root of a full tree was rotated to the right and both sizes were
\* refreshed: its former left child is the root, with a left child of its own
C30_Witness ==
  /\ op.name = "rotate_right" /\ pending = <<>>
  /\ Len(Inorder(1)) = MaxNodes
  /\ nodes[op.ret[1]].parent = root[1]
  /\ nodes[root[1]].right_child = op.ret[1]
  /\ nodes[root[1]].left_child # Null
  /\ nodes[op.ret[1]].left_child # Null
  /\ SizesConsistent(nodes)

\* C31: splay(n) without top ends with n as the root of the handle and
\* without a parent; splay(n, top) for a proper ancestor top of n ends with
\* top as the parent of n and the root of the handle unchanged; either way
\* the in-order sequence is unchanged and, sizes being refreshed, every size
\* is one plus the sizes of the children.
C31_SplayPlacement ==
  [][op'.name = "splay" =>
       \A i \in 0..MaxNodes, top \in 0..MaxNodes :
         TreeSplay(1, i, top) =>
           \E n \in {NodeAt(1, i)} :
             /\ op'.ret = <<n>>
             /\ IF top = Null
                THEN root'[1] = n /\ nodes'[n].parent = Null
                ELSE nodes'[n].parent = top /\ root'[1] = root[1]
             /\ nodes'[root'[1]].parent = Null
             /\ Inorder(1)' = Inorder(1)
             /\ first'[1] = first[1] /\ last'[1] = last[1]
             /\ \A m \in DOMAIN nodes : nodes'[m].data = nodes[m].data
             /\ SizesConsistent(nodes')]_vars

\* the last node of a left-leaning chain of MaxNodes nodes was splayed up to
\* a child of the root by a double step
C31_Witness ==
  /\ op.name = "splay" /\ Len(Inorder(1)) = MaxNodes
  /\ nodes[op.ret[1]].parent = root[1]
  /\ first[1] = op.ret[1]
  /\ nodes[op.ret[1]].right_child # Null
  /\ nodes[nodes[op.ret[1]].right_child].right_child # Null
  /\ nodes[root[1]].right_child = Null

\* every node strictly below x has a size computed from its children
FreshBelow(h, x) ==
  \A m \in DOMAIN h :
    (m # x /\ is_under(h, m, x)) =>
      h[m].size = 1 + get_size(h, h[m].left_child)
                    + get_size(h, h[m].right_child)

\* C32: during splay(n, top) with the update function f, a double step is
\* followed by f(former grandparent) and then f(former parent), a single
\* step by f(former parent), and f(n) comes last; whenever f is about to be
\* applied to a node, every node below it at that moment has already a
\* correct size, so that with f = update_size all sizes are correct at the
\* end.
C32_CallbackOrder ==
  [][op'.name = "splay_steps" =>
       /\ (op.name = "splay_steps" /\ pending = <<>> /\ pending' # <<>>) =>
            pending' = IF nodes[op.ret[1]].parent = op.ret[2]
                       THEN <<op.ret[1]>>
                       ELSE IF nodes[nodes[op.ret[1]].parent].parent # op.ret[2]
                       THEN <<nodes[nodes[op.ret[1]].parent].parent,
                              nodes[op.ret[1]].parent>>
                       ELSE <<nodes[op.ret[1]].parent>>
       /\ pending' # <<>> => FreshBelow(nodes', Head(pending'))
       /\ (op'.status = "last" /\ pending' # <<>>) => pending' = <<op.ret[1]>>
       /\ op'.status = "ok" =>
            /\ pending' = <<>>
            /\ SizesConsistent(nodes')
            /\ nodes'[op.ret[1]].parent = op.ret[2]]_vars

\* a double step of the zig-zig kind has been taken in a chain of MaxNodes
\* nodes: f is owed to the former grandparent, now a child of the former
\* parent, and then to the former parent
C32_Witness ==
  /\ op.name = "splay_steps" /\ op.status = "running"
  /\ Len(pending) = 2 /\ Cardinality(DOMAIN nodes) = MaxNodes
  /\ nodes[pending[1]].parent = pending[2]
  /\ nodes[pending[2]].parent = op.ret[1]
  /\ nodes[op.ret[1]].parent = op.ret[2] /\ op.ret[2] # Null
  /\ nodes[pending[1]].size # 1 + get_size(nodes, nodes[pending[1]].left_child)
                                + get_size(nodes, nodes[pending[1]].right_child)

\* C33: under the splay strategy operator[](k), at(k) and
\* get_iterator_at_index(k) with k < size change the shape of the tree only:
\* the in-order sequence of nodes and every value stay as they were, the
\* element at ordinal k is the one returned, and every iterator obtained
\* before (a node of the tree, begin, the last element) designates the same
\* element at the same ordinal afterwards.
C33_ReadAccessKeepsSequence ==
  [][(strategy = "splay" /\ op'.name \in {"subscript", "at"}
        /\ op'.status = "ok") =>
       /\ Inorder(1)' = Inorder(1)
       /\ DOMAIN nodes' = DOMAIN nodes
       /\ \A n \in DOMAIN nodes :
            /\ nodes'[n].data = nodes[n].data
            /\ get_index(nodes', n) = get_index(nodes, n)
       /\ first'[1] = first[1] /\ last'[1] = last[1]
       /\ ref'[1] = ref[1]
       /\ op'.ret[2] = InorderData(1)[op'.ret[1] + 1]
       /\ root'[1] = NodeAt(1, op'.ret[1])]_vars

\* the first element of a full container was read and its node, once at the
\* bottom of the tree, is the root
C33_Witness ==
  /\ strategy = "splay" /\ op.name = "subscript" /\ op.ret[1] = 0
  /\ Len(Inorder(1)) = MaxNodes
  /\ root[1] = first[1]
  /\ nodes[root[1]].right_child # Null
  /\ nodes[nodes[root[1]].right_child].left_child # Null

\* C34: under the splay strategy, after the positional access of k < size
\* the node at ordinal k is the root; after insert(pos, value) the new node is
\* the root; after a bulk insert of at least one value the last node
\* inserted is the root; after push_front on a non-empty container the
\* former first node is the root and the new node is its left child; after
\* push_back on a non-empty container the former last node is the root and
\* the new node is its right child.
C34_SplayRootPlacement ==
  [][(strategy = "splay" /\ op'.status = "ok") =>
       /\ op'.name \in {"subscript", "at"} =>
            root'[1] = NodeAt(1, op'.ret[1])
       /\ op'.name = "insert" =>
            /\ root'[1] = op'.ret[2]
            /\ root'[1] \notin DOMAIN nodes
            /\ root'[1] = Inorder(1)'[op'.ret[1] + 1]
       /\ (op'.name = "insert_range" /\ DOMAIN nodes' # DOMAIN nodes) =>
            /\ root'[1] \notin DOMAIN nodes
            /\ root'[1] = Inorder(1)'[op'.ret[1] + Cardinality(DOMAIN nodes')
                                        - Cardinality(DOMAIN nodes)]
       /\ (op'.name = "push_front" /\ root[1] # Null) =>
            /\ root'[1] = first[1]
            /\ nodes'[root'[1]].left_child = first'[1]
            /\ first'[1] \notin DOMAIN nodes
       /\ (op'.name = "push_back" /\ root[1] # Null) =>
            /\ root'[1] = last[1]
            /\ nodes'[root'[1]].right_child = last'[1]
            /\ last'[1] \notin DOMAIN nodes]_vars

\* two values were inserted at once in the middle of a container of two: the
\* second of them is the root, the first one is below it
C34_Witness ==
  /\ strategy = "splay" /\ op.name = "insert_range" /\ op.ret[1] = 1
  /\ Len(Inorder(1)) = MaxNodes
  /\ root[1] = Inorder(1)[3]
  /\ op.ret[2] = Inorder(1)[2]
  /\ nodes[root[1]].left_child # Null /\ nodes[root[1]].right_child # Null

\* the child slot that an insert position designates is empty
SlotEmpty(h, pos) ==
  IF pos.left_child THEN h[pos.node].left_child = Null
  ELSE h[pos.node].right_child = Null

\* C35: in a non-empty tree with correct sizes, for every ordinal i < size and
\* the node n_i at i, get_insert_position_for_index(i) is
\* n_i.get_prev_insert_position() and get_insert_position_for_index(i + 1) is
\* n_i.get_next_insert_position(), the same node and the same side, and the
\* slot designated is empty.
C35_InsertPositionsAgree ==
  \A t \in Trees : \A i \in 0..(Len(Inorder(t)) - 1) :
    /\ tree_get_insert_position_for_index(TreeOf(t), i)
         = get_prev_insert_position(nodes, Inorder(t)[i + 1])
    /\ tree_get_insert_position_for_index(TreeOf(t), i + 1)
         = get_next_insert_position(nodes, Inorder(t)[i + 1])
    /\ SlotEmpty(nodes, get_prev_insert_position(nodes, Inorder(t)[i + 1]))
    /\ SlotEmpty(nodes, get_next_insert_position(nodes, Inorder(t)[i + 1]))
    /\ SlotEmpty(nodes, tree_get_insert_position_for_index(TreeOf(t), i))
    /\ SlotEmpty(nodes, tree_get_insert_position_for_index(TreeOf(t), i + 1))

\* a full tree whose root has both children and whose successor is not its
\* right child: the position after the root is the left slot of the successor,
\* the position before it the right slot of the predecessor
C35_Witness ==
  /\ Len(Inorder(1)) = MaxNodes /\ root[2] = Null
  /\ nodes[root[1]].left_child # Null /\ nodes[root[1]].right_child # Null
  /\ nodes[nodes[root[1]].right_child].left_child # Null
  /\ get_next_insert_position(nodes, root[1])
       = InsertPosition(nodes[nodes[root[1]].right_child].left_child, TRUE)
  /\ tree_get_insert_position_for_index(TreeOf(1), 1)
       = InsertPosition(nodes[root[1]].left_child, FALSE)

\* the tree t after the step, as a handle on the heap after the step
After(t) == MkTree(nodes', root'[t], first'[t], last'[t])

\* C36: unlink_subtree(n) returns a handle on exactly the subtree of n (root
\* n, first and last its leftmost and rightmost nodes, sizes as before) and
\* the position n had; the tree keeps the other nodes in order, its size is
\* less by size(n), first and last move to the parent of n when they were
\* under n, and it is empty when n was the root; link_subtree of the detached
\* tree at the position returned restores the in-order sequence, root, first
\* and last of the tree, and link_subtree leaves the handle it moved from
\* empty.
C36_UnlinkLinkRoundTrip ==
  [][/\ op'.name = "unlink_subtree" =>
          \E n \in {op'.ret[2]} :
          \E pos \in {tree_unlink(TreeOf(1), n, TRUE).ret} :
          \E L \in {tree_link_subtree(After(1), pos, After(2), TRUE)} :
            /\ root'[2] = n /\ nodes'[n].parent = Null
            /\ Inorder(2)' = traverse_inorder(nodes, n)
            /\ first'[2] = Inorder(2)'[1]
            /\ last'[2] = Inorder(2)'[Len(Inorder(2)')]
            /\ \A m \in SeqRange(Inorder(2)') : nodes'[m] = [nodes[m] EXCEPT !.parent = nodes'[m].parent]
            /\ pos = InsertPosition(nodes[n].parent,
                                    nodes[n].parent # Null
                                      /\ nodes[nodes[n].parent].left_child = n)
            /\ Inorder(1)' = RemoveRange(Inorder(1),
                                         IndexOf(Inorder(1), Inorder(2)'[1]) - 1,
                                         IndexOf(Inorder(1), Inorder(2)'[1]) - 1
                                           + nodes[n].size)
            /\ tree_size(After(1)) = tree_size(TreeOf(1)) - nodes[n].size
            /\ first'[1] = IF is_under(nodes, first[1], n)
                           THEN nodes[n].parent ELSE first[1]
            /\ last'[1] = IF is_under(nodes, last[1], n)
                          THEN nodes[n].parent ELSE last[1]
            /\ root[1] = n =>
                 root'[1] = Null /\ first'[1] = Null /\ last'[1] = Null
            /\ SizesConsistent(nodes')
            /\ traverse_inorder(L.nodes, L.root) = Inorder(1)
            /\ L.root = root[1] /\ L.first = first[1] /\ L.last = last[1]
            /\ SizesConsistent(L.nodes)
     /\ op'.name = "link_subtree" =>
          /\ root'[2] = Null /\ first'[2] = Null /\ last'[2] = Null
          /\ Len(Inorder(1)') = Len(Inorder(1)) + Len(Inorder(2))]_vars

\* an inner subtree of two nodes, holding neither the first nor the last
\* node, has been detached from a full tree
C36_Witness ==
  /\ op.name = "unlink_subtree" /\ Cardinality(DOMAIN nodes) = MaxNodes
  /\ Len(Inorder(2)) = 2 /\ Len(Inorder(1)) = 2
  /\ root[2] = op.ret[2]
  /\ nodes[first[1]].data < nodes[first[2]].data
  /\ nodes[last[2]].data < nodes[last[1]].data

\* a link_subtree or link_subtree_at_index step of the && overloads
MoveLinked == op'.name \in {"link_subtree", "link_subtree_at_index"}

\* the same of the const& overloads
ConstLinked ==
  op'.name \in {"link_subtree const&", "link_subtree_at_index const&"}

\* the ordinal k at which the step linked handle 2 into handle 1
LinkedAt(k) ==
  \/ TreeLinkSubtree(1, k, 2) \/ TreeLinkSubtreeAtIndex(1, k, 2)
  \/ TreeLinkSubtreeConst(1, k, 2) \/ TreeLinkSubtreeAtIndexConst(1, k, 2)

\* the receiver after the step: the nodes of other at ordinal k, first and
\* last from other at the front and the back end, root from other when the
\* receiver was empty
Received(k) ==
  /\ Inorder(1)' = InsertSeqAt(Inorder(1), k, Inorder(2))
  /\ SizesConsistent(nodes')
  /\ first'[1] = IF k = 0 THEN first[2] ELSE first[1]
  /\ last'[1] = IF k = Len(Inorder(1)) THEN last[2] ELSE last[1]
  /\ root'[1] = IF root[1] = Null THEN root[2] ELSE root[1]

\* other after the step: empty, none of its former nodes reachable from it
Consumed == root'[2] = Null /\ first'[2] = Null /\ last'[2] = Null

\* C37: link_subtree(pos, other) and link_subtree_at_index(k, other) are
\* move-equivalent, whichever overload is called: after the call other is
\* empty, its former nodes belong to the receiver only, first (last) of the
\* receiver is the former first (last) of other exactly when the position is
\* the front (back) end, and an empty receiver takes root, first and last of
\* other.
C37_LinkSubtreeMoves ==
  [][(MoveLinked \/ ConstLinked) =>
       \A k \in 0..MaxNodes : LinkedAt(k) => Received(k) /\ Consumed]_vars

\* the statement of C37 for the && overloads alone
C37_MoveOverloads ==
  [][MoveLinked =>
       \A k \in 0..MaxNodes : LinkedAt(k) => Received(k) /\ Consumed]_vars

\* the const& overloads: the receiver as in C37, other unchanged and sharing
\* every one of its nodes with the receiver
C37_ConstOverloads ==
  [][ConstLinked =>
       \A k \in 0..MaxNodes :
         LinkedAt(k) =>
           /\ Received(k)
           /\ root'[2] = root[2] /\ first'[2] = first[2] /\ last'[2] = last[2]
           /\ SeqRange(Inorder(2)) \subseteq SeqRange(Inorder(1)')
           /\ Shared']_vars

\* every handle and every link of the heap h points at a node of h
NoDangling ==
  /\ \A t \in Trees : {root[t], first[t], last[t]} \subseteq DOMAIN nodes \cup {Null}
  /\ \A n \in DOMAIN nodes :
       {nodes[n].left_child, nodes[n].right_child, nodes[n].parent}
         \subseteq DOMAIN nodes \cup {Null}

\* the nodes allocated and not destroyed are the nodes of the containers
Accounted ==
  /\ NoDangling
  /\ DOMAIN nodes = UNION {SeqRange(Inorder(t)) : t \in Trees}

\* the nodes the step destroyed
Destroyed == DOMAIN nodes \ DOMAIN nodes'

\* the nodes of the elements at ordinals i .. j - 1 of container t
ElementNodes(t, i, j) == {Inorder(t)[x] : x \in (i + 1)..j}

\* what one step of the facade does to the nodes
AccountedStep ==
  strategy \in Strategies =>
       /\ Accounted'
       /\ \A t \in Trees :
            Len(Inorder(t)') < Len(Inorder(t))
              /\ op'.name \notin MoveKinds \cup JoinKinds =>
                Cardinality(DOMAIN nodes) - Cardinality(DOMAIN nodes')
                  = Len(Inorder(t)) - Len(Inorder(t)')
       /\ op'.name = "pop_front" => Destroyed = {first[1]}
       /\ op'.name = "pop_back" => Destroyed = {last[1]}
       /\ op'.name = "erase" => Destroyed = {NodeAt(1, op'.ret[1])}
       /\ op'.name = "erase_range" =>
            Destroyed = ElementNodes(1, op'.ret[1], op'.ret[2])
       /\ op'.name = "clear" => Destroyed = SeqRange(Inorder(1))
       /\ op'.name \in {"copy_assign", "move_assign"} =>
            /\ DOMAIN nodes \ SeqRange(Inorder(op'.ret[1]))
                 \subseteq DOMAIN nodes'
            /\ Cardinality(DOMAIN nodes')
                 = Cardinality(DOMAIN nodes) - Len(Inorder(op'.ret[1]))
                   + (IF op'.name = "copy_assign"
                      THEN Len(Inorder(op'.ret[2])) ELSE 0)
       /\ op'.name \notin {"pop_front", "pop_back", "erase", "erase_range",
                           "clear", "copy_assign", "move_assign"} =>
            Destroyed = {}

ParentsOf(n) ==
  {<<p, side>> \in (DOMAIN nodes) \X {kLeftChild, kRightChild} :
     (IF side = kLeftChild THEN nodes[p].left_child ELSE nodes[p].right_child)
       = n}

\* each node is held by one owner: the child slot its parent field names, or
\* the root of one container and then no child slot
SingleOwner ==
  \A n \in DOMAIN nodes :
    /\ Cardinality(ParentsOf(n)) + Cardinality({t \in Trees : root[t] = n}) = 1
    /\ \A s \in ParentsOf(n) : nodes[n].parent = s[1]
    /\ (\E t \in Trees : root[t] = n) => nodes[n].parent = Null

\* the two containers share no node and every node has one owner
Owned ==
  /\ NoDangling
  /\ SeqRange(Inorder(1)) \cap SeqRange(Inorder(2)) = {}
  /\ SingleOwner
  /\ \A t \in Trees : Len(Inorder(t)) = Cardinality(SeqRange(Inorder(t)))

\* C39: after every operation of the facade, copy, move, swap, clone and
\* join among them, no node is reachable from the roots of two containers and
\* no node is the child of two parents: each node belongs to one tree.
C39_OwnershipDisjoint == strategy \in Strategies => Owned

\* two containers of two nodes each have exchanged their contents
C39_Witness ==
  /\ strategy \in Strategies /\ op.name = "swap" /\ op.ret = <<1, 2>>
  /\ Len(Inorder(1)) = 2 /\ Len(Inorder(2)) = 2
  /\ InorderData(1) = InorderData(2) /\ root[2] < root[1]

\* the values, the size and the links of container t are as before the step
Untouched(t) ==
  /\ InorderData(t)' = InorderData(t)
  /\ tree_size(After(t)) = tree_size(TreeOf(t))
  /\ root'[t] = root[t] /\ first'[t] = first[t] /\ last'[t] = last[t]
  /\ \A n \in SeqRange(Inorder(t)) : n \in DOMAIN nodes' /\ nodes'[n] = nodes[n]

\* C40: a copy assignment of a container to itself (a = a) leaves its
\* sequence, its size and its structure unchanged, just as a copy assignment
\* from another container leaves the source unchanged.
C40_SelfAssignUnchanged ==
  [][op'.name = "copy_assign" =>
       \A s \in Trees : op'.ret[2] = s => Untouched(s)]_vars

\* the statement of C40 for two distinct containers
C40_SourceUnchanged ==
  [][op'.name = "copy_assign" /\ op'.ret[1] # op'.ret[2] =>
       \A s \in Trees : op'.ret[2] = s => Untouched(s)]_vars

\* what a = a does: every node is destroyed and a is empty
C40_SelfAssignEmpties ==
  [][op'.name \in {"copy_assign", "move_assign"} /\ op'.ret[1] = op'.ret[2] =>
       \A d \in Trees :
         op'.ret[1] = d =>
           /\ root'[d] = Null /\ first'[d] = Null /\ last'[d] = Null
           /\ DOMAIN nodes' = DOMAIN nodes \ SeqRange(Inorder(d))]_vars

====
